---- MODULE Spec2Model ----
(***************************************************************************)
(* A model of the spend-policy engine of the checkout demo:                *)
(*   - the Period Spend Tracker  (services/spendLimitService.ts)           *)
(*   - the Permission Request Ledger (services/permissionApprovalService.ts)*)
(*   - the Auto-Spend Arbiter (services/autoSpendService.ts)                *)
(*   - the checkout's PaymentProvider (contexts/PaymentContext.tsx)          *)
(* Amounts are whole dollars; the clock is Date.now() in milliseconds.     *)
(***************************************************************************)
EXTENDS Integers, Sequences, FiniteSets, TLC

VARIABLES
    now,            \* the clock: Date.now(), milliseconds
    localStorage,   \* the browser's key-value store, one entry per storage key
    config,         \* SpendLimitService.config
    tracking,       \* SpendLimitService.tracking
    permConfig,     \* PermissionApprovalService.config
    requests,       \* PermissionApprovalService.requests
    autoConfig,     \* AutoSpendService.config: <<>> is null
    tracker2,       \* a second SpendLimitService instance (another tab): its
                    \* config and tracking
    payment,        \* PaymentProvider: its React state, what it reads from the
                    \* other contexts, and the calls awaiting an answer
    lastOp          \* the last step taken: its name, its arguments and what it returned

vars == <<now, localStorage, config, tracking, permConfig, requests, autoConfig,
          tracker2, payment, lastOp>>

trackerVars == <<config, tracking>>
ledgerVars == <<permConfig, requests>>
arbiterVars == <<autoConfig>>
otherVars == <<tracker2, payment>>

-----------------------------------------------------------------------------
(* Bounds of the model *)

MaxDay == 2             \* the clock stops after this many day boundaries
DaysPerMonth == 2       \* length of a calendar month, in days
MaxTx == 2              \* recordSpend calls per behaviour

\* amounts passed to canSpend
Amounts == {3, 10, 15, 25}

\* amounts passed to recordSpend (JavaScript numbers, sign unchecked)
SpendAmounts == {-5, 15}

\* the optional subAccountId argument of recordSpend: <<>> is undefined
SubAccountArgs == {<<>>, <<"sub1">>}

\* the Partial<SpendLimitConfig> arguments passed to updateConfig
PartialSpendConfigs ==
    { [dailyLimit |-> 40, monthlyLimit |-> 30],
      [requiresApproval |-> FALSE] }

MaxRequests == 2        \* requests in the ledger per behaviour
MaxLedgerDay == 1       \* day boundaries the ledger's clock passes

\* sub-accounts, amounts, recipients and purposes passed to the ledger
SubAccountIds == {"sub1", "sub2"}
RequestAmounts == {5, 15}
Addresses == {"0xBAD"}
ProbeAddresses == {"0xbad"}             \* recipients passed to the ledger's canSpend
Purposes == {"gift"}
Approvers == {"admin"}
RejectionReasons == {"declined"}

\* an id no request carries
MissingId == <<-1, 0>>

\* the Partial<PermissionApprovalConfig> arguments passed to updateConfig
PartialPermConfigs ==
    { [blockedRecipients |-> <<"0xBAD">>, allowedRecipients |-> <<>>,
       maxPendingRequests |-> 10, requireApprovalForSubAccounts |-> FALSE,
       requestExpiryHours |-> 24],
      [blockedRecipients |-> <<"0xbad">>, allowedRecipients |-> <<"0xabc">>,
       maxPendingRequests |-> 1, requireApprovalForSubAccounts |-> TRUE,
       requestExpiryHours |-> 48],
      [blockedRecipients |-> <<>>, allowedRecipients |-> <<"0xabc">>,
       maxPendingRequests |-> 1, requireApprovalForSubAccounts |-> TRUE,
       requestExpiryHours |-> 24],
      [blockedRecipients |-> <<>>, allowedRecipients |-> <<>>,
       maxPendingRequests |-> 1, requireApprovalForSubAccounts |-> TRUE,
       requestExpiryHours |-> 24] }

\* the arguments of the ledger's canSpend the properties range over
ProbeAmounts == RequestAmounts \cup {6}
AllProbeAddresses == {"0xbad", "0xBAD", "0xabc"}

-----------------------------------------------------------------------------
(* The clock and the calendar *)

MsPerHour == 60 * 60 * 1000
MsPerDay == 24 * MsPerHour

\* new Date().toDateString(): one string per calendar day, named by the day's index
ToDateString(ms) == ms \div MsPerDay

\* new Date(year, month, 1).toDateString(): the date string of the month's first day
FirstDayOfMonth(ms) == ToDateString(ms) - (ToDateString(ms) % DaysPerMonth)

\* an absent localStorage entry (getItem returns null); a present one is <<value>>
Absent == <<>>

\* a stored text JSON.parse throws on: the text and the error, where a text that
\* parses is <<value>>
Unparsable == <<"{", "SyntaxError">>
Parses(entry) == Len(entry) = 1

\* { ...base, ...partial }
Merge(base, partial) ==
    [k \in DOMAIN base |-> IF k \in DOMAIN partial THEN partial[k] ELSE base[k]]

-----------------------------------------------------------------------------
(* Permission Request Ledger: PermissionApprovalService *)

\* String.prototype.toLowerCase on the addresses of the model
toLowerCase(str) ==
    IF str = "0xBAD" THEN "0xbad"
    ELSE IF str = "0xABC" THEN "0xabc"
    ELSE str

\* Array.prototype.includes
Includes(list, x) == \E i \in DOMAIN list : list[i] = x

getDefaultPermConfig ==
    [ autoApproveThreshold |-> 5,
      maxPendingRequests |-> 10,
      requestExpiryHours |-> 24,
      requireApprovalForSubAccounts |-> TRUE,
      allowedRecipients |-> <<>>,
      blockedRecipients |-> <<>> ]

loadPermConfig(store) ==
    IF store.permissionApprovalConfig # Absent /\ Parses(store.permissionApprovalConfig)
    THEN Merge(getDefaultPermConfig, store.permissionApprovalConfig[1])
    ELSE getDefaultPermConfig

loadRequests(store) ==
    IF store.permissionRequests # Absent /\ Parses(store.permissionRequests)
    THEN store.permissionRequests[1]
    ELSE <<>>

\* a stored text that parses to an object and not to an array: loadRequests
\* returns it as it is, and it has none of filter, find and map
NotAnArray == <<[object |-> "{}"]>>
IsArray(value) == value # NotAnArray

\* the TypeError of a call of an array method on a value that is not an array
ErrNoFilter == "this.requests.filter is not a function"
ErrNoFind == "this.requests.find is not a function"
ErrNoMap == "this.requests.map is not a function"

\* getPendingRequests(): pending and not yet expired
\* getPendingRequests listing a request still at the instant of its expiresAt
getPendingRequestsInclusive(reqs, ms) ==
    SelectSeq(reqs, LAMBDA req : req.status = "pending" /\ req.expiresAt >= ms)

getPendingRequests(reqs, ms) ==
    SelectSeq(reqs, LAMBDA req : req.status = "pending" /\ req.expiresAt > ms)

\* getRequestById(id) as the position of the first request with that id, 0 for undefined
getRequestById(reqs, id) ==
    IF \E i \in DOMAIN reqs : reqs[i].id = id
    THEN CHOOSE i \in DOMAIN reqs :
             reqs[i].id = id /\ \A j \in 1..(i - 1) : reqs[j].id # id
    ELSE 0

ErrBlocked == "Recipient address is blocked"
ErrNotAllowed == "Recipient address is not in allowed list"
ErrTooMany == "Too many pending requests. Please wait for some to be processed."
ErrNotFound == "Request not found"
ErrNotPending == "Request is not pending"
ErrExpired == "Request has expired"

\* the checks of requestPermission with the pending limit checked first
validateRequestPendingFirst(reqs, cfg, ms, recipientAddress) ==
    IF Len(getPendingRequests(reqs, ms)) >= cfg.maxPendingRequests
    THEN ErrTooMany
    ELSE IF Includes(cfg.blockedRecipients, toLowerCase(recipientAddress))
    THEN ErrBlocked
    ELSE IF Len(cfg.allowedRecipients) > 0
            /\ ~Includes(cfg.allowedRecipients, toLowerCase(recipientAddress))
    THEN ErrNotAllowed
    ELSE "none"

\* validateRequest refusing only above the limit of pending requests
validateRequestAboveLimit(reqs, cfg, ms, recipientAddress) ==
    IF Includes(cfg.blockedRecipients, toLowerCase(recipientAddress))
    THEN ErrBlocked
    ELSE IF Len(cfg.allowedRecipients) > 0
            /\ ~Includes(cfg.allowedRecipients, toLowerCase(recipientAddress))
    THEN ErrNotAllowed
    ELSE IF Len(getPendingRequests(reqs, ms)) > cfg.maxPendingRequests
    THEN ErrTooMany
    ELSE "none"

\* the checks of requestPermission, in order: the error of the first that fails
validateRequest(reqs, cfg, ms, recipientAddress) ==
    IF Includes(cfg.blockedRecipients, toLowerCase(recipientAddress))
    THEN ErrBlocked
    ELSE IF Len(cfg.allowedRecipients) > 0
            /\ ~Includes(cfg.allowedRecipients, toLowerCase(recipientAddress))
    THEN ErrNotAllowed
    ELSE IF Len(getPendingRequests(reqs, ms)) >= cfg.maxPendingRequests
    THEN ErrTooMany
    ELSE "none"

\* the request built by requestPermission; absent optional fields are <<>>
NewRequest(id, subAccountId, amount, recipientAddress, purpose, ms, expiry, auto) ==
    [ id |-> id,
      subAccountId |-> subAccountId,
      amount |-> amount,
      recipientAddress |-> recipientAddress,
      purpose |-> purpose,
      requestedAt |-> ms,
      status |-> IF auto THEN "approved" ELSE "pending",
      expiresAt |-> expiry,
      approvedAt |-> IF auto THEN <<ms>> ELSE <<>>,
      approvedBy |-> IF auto THEN <<"system">> ELSE <<>>,
      rejectedAt |-> <<>>,
      rejectionReason |-> <<>> ]

\* the request of requestPermission auto-approved only below the threshold
buildRequestBelowThreshold(cfg, ms, rnd, subAccountId, amount, recipientAddress, purpose) ==
    NewRequest(<<ms, rnd>>, subAccountId, amount, recipientAddress, purpose, ms,
               ms + (cfg.requestExpiryHours * 60 * 60 * 1000),
               amount < cfg.autoApproveThreshold)

\* the request object requestPermission creates at time ms; its id is
\* req_<Date.now()>_<random suffix>
buildRequest(cfg, ms, rnd, subAccountId, amount, recipientAddress, purpose) ==
    NewRequest(<<ms, rnd>>, subAccountId, amount, recipientAddress, purpose, ms,
               ms + (cfg.requestExpiryHours * 60 * 60 * 1000),
               amount <= cfg.autoApproveThreshold)

\* requestPermission: the request list afterwards and the returned object
requestPermission(reqs, cfg, ms, rnd, subAccountId, amount, recipientAddress, purpose) ==
    LET error == validateRequest(reqs, cfg, ms, recipientAddress)
        request == buildRequest(cfg, ms, rnd, subAccountId, amount,
                                recipientAddress, purpose)
    IN  IF error # "none"
        THEN [ requests |-> reqs,
               result |-> [success |-> FALSE, requestId |-> <<>>,
                           autoApproved |-> <<>>, error |-> error] ]
        ELSE [ requests |-> Append(reqs, request),
               result |-> [success |-> TRUE, requestId |-> <<request.id>>,
                           autoApproved |-> <<request.status = "approved">>,
                           error |-> "none"] ]

Outcome(reqs, ok, error) ==
    [requests |-> reqs, result |-> [success |-> ok, error |-> error]]

\* approveRequest without the check that the request is pending
approveRequestAnyStatus(reqs, ms, requestId, approvedBy) ==
    LET i == getRequestById(reqs, requestId)
    IN  IF i = 0 THEN Outcome(reqs, FALSE, ErrNotFound)
        ELSE IF reqs[i].expiresAt <= ms
        THEN Outcome([reqs EXCEPT ![i].status = "expired"], FALSE, ErrExpired)
        ELSE Outcome([reqs EXCEPT ![i].status = "approved",
                                  ![i].approvedAt = <<ms>>,
                                  ![i].approvedBy = <<approvedBy>>], TRUE, "none")

\* approveRequest giving the approved request a new life of 48 hours
approveRequestExtending(reqs, ms, requestId, approvedBy) ==
    LET i == getRequestById(reqs, requestId)
    IN  IF i = 0 THEN Outcome(reqs, FALSE, ErrNotFound)
        ELSE IF reqs[i].status # "pending" THEN Outcome(reqs, FALSE, ErrNotPending)
        ELSE IF reqs[i].expiresAt <= ms
        THEN Outcome([reqs EXCEPT ![i].status = "expired"], FALSE, ErrExpired)
        ELSE Outcome([reqs EXCEPT ![i].status = "approved",
                                  ![i].approvedAt = <<ms>>,
                                  ![i].approvedBy = <<approvedBy>>,
                                  ![i].expiresAt = ms + 48 * MsPerHour],
                     TRUE, "none")

\* approveRequest without the check that the request has expired
approveRequestIgnoringExpiry(reqs, ms, requestId, approvedBy) ==
    LET i == getRequestById(reqs, requestId)
    IN  IF i = 0 THEN Outcome(reqs, FALSE, ErrNotFound)
        ELSE IF reqs[i].status # "pending" THEN Outcome(reqs, FALSE, ErrNotPending)
        ELSE Outcome([reqs EXCEPT ![i].status = "approved",
                                  ![i].approvedAt = <<ms>>,
                                  ![i].approvedBy = <<approvedBy>>], TRUE, "none")

\* approveRequest: the request list afterwards and the returned object
approveRequest(reqs, ms, requestId, approvedBy) ==
    LET i == getRequestById(reqs, requestId)
    IN  IF i = 0 THEN Outcome(reqs, FALSE, ErrNotFound)
        ELSE IF reqs[i].status # "pending" THEN Outcome(reqs, FALSE, ErrNotPending)
        ELSE IF reqs[i].expiresAt <= ms
        THEN Outcome([reqs EXCEPT ![i].status = "expired"], FALSE, ErrExpired)
        ELSE Outcome([reqs EXCEPT ![i].status = "approved",
                                  ![i].approvedAt = <<ms>>,
                                  ![i].approvedBy = <<approvedBy>>], TRUE, "none")

\* rejectRequest expiring an overdue request as approveRequest does
rejectRequestCheckingExpiry(reqs, ms, requestId, rejectedBy, reason) ==
    LET i == getRequestById(reqs, requestId)
    IN  IF i = 0 THEN Outcome(reqs, FALSE, ErrNotFound)
        ELSE IF reqs[i].status # "pending" THEN Outcome(reqs, FALSE, ErrNotPending)
        ELSE IF reqs[i].expiresAt <= ms
        THEN Outcome([reqs EXCEPT ![i].status = "expired"], FALSE, ErrExpired)
        ELSE Outcome([reqs EXCEPT ![i].status = "rejected",
                                  ![i].rejectedAt = <<ms>>,
                                  ![i].approvedBy = <<rejectedBy>>,
                                  ![i].rejectionReason = <<reason>>], TRUE, "none")

\* rejectRequest: the request list afterwards and the returned object; the
\* rejecting party is written to approvedBy
rejectRequest(reqs, ms, requestId, rejectedBy, reason) ==
    LET i == getRequestById(reqs, requestId)
    IN  IF i = 0 THEN Outcome(reqs, FALSE, ErrNotFound)
        ELSE IF reqs[i].status # "pending" THEN Outcome(reqs, FALSE, ErrNotPending)
        ELSE Outcome([reqs EXCEPT ![i].status = "rejected",
                                  ![i].rejectedAt = <<ms>>,
                                  ![i].approvedBy = <<rejectedBy>>,
                                  ![i].rejectionReason = <<reason>>], TRUE, "none")

\* the position of the first request find() accepts for canSpend, 0 for undefined
findMatch(reqs, ms, subAccountId, amount, recipientAddress, status) ==
    LET hit(i) == /\ reqs[i].subAccountId = subAccountId
                  /\ reqs[i].amount = amount
                  /\ toLowerCase(reqs[i].recipientAddress) = toLowerCase(recipientAddress)
                  /\ reqs[i].status = status
                  /\ reqs[i].expiresAt > ms
    IN  IF \E i \in DOMAIN reqs : hit(i)
        THEN CHOOSE i \in DOMAIN reqs : hit(i) /\ \A j \in 1..(i - 1) : ~hit(j)
        ELSE 0

\* the ledger's canSpend with auto-approval only below the threshold
permissionCanSpendBelowThreshold(reqs, cfg, ms, subAccountId, amount, recipientAddress) ==
    LET approved == findMatch(reqs, ms, subAccountId, amount, recipientAddress, "approved")
        pending == findMatch(reqs, ms, subAccountId, amount, recipientAddress, "pending")
        answer(ok, why, needs, id) ==
            [ allowed |-> ok, reason |-> why, requiresApproval |-> needs,
              pendingRequestId |-> id ]
    IN  IF amount < cfg.autoApproveThreshold THEN answer(TRUE, "none", FALSE, <<>>)
        ELSE IF approved # 0 THEN answer(TRUE, "none", FALSE, <<>>)
        ELSE IF pending # 0
        THEN answer(FALSE, "Request is pending approval", TRUE, <<reqs[pending].id>>)
        ELSE IF cfg.requireApprovalForSubAccounts
        THEN answer(FALSE, "Approval required for this amount", TRUE, <<>>)
        ELSE answer(TRUE, "none", FALSE, <<>>)

\* the ledger's canSpend with the pending request looked up before the approved one
permissionCanSpendPendingFirst(reqs, cfg, ms, subAccountId, amount, recipientAddress) ==
    LET approved == findMatch(reqs, ms, subAccountId, amount, recipientAddress, "approved")
        pending == findMatch(reqs, ms, subAccountId, amount, recipientAddress, "pending")
        answer(ok, why, needs, id) ==
            [ allowed |-> ok, reason |-> why, requiresApproval |-> needs,
              pendingRequestId |-> id ]
    IN  IF amount <= cfg.autoApproveThreshold THEN answer(TRUE, "none", FALSE, <<>>)
        ELSE IF pending # 0
        THEN answer(FALSE, "Request is pending approval", TRUE, <<reqs[pending].id>>)
        ELSE IF approved # 0 THEN answer(TRUE, "none", FALSE, <<>>)
        ELSE IF cfg.requireApprovalForSubAccounts
        THEN answer(FALSE, "Approval required for this amount", TRUE, <<>>)
        ELSE answer(TRUE, "none", FALSE, <<>>)

\* the ledger's canSpend(subAccountId, amount, recipientAddress)
permissionCanSpend(reqs, cfg, ms, subAccountId, amount, recipientAddress) ==
    LET approved == findMatch(reqs, ms, subAccountId, amount, recipientAddress, "approved")
        pending == findMatch(reqs, ms, subAccountId, amount, recipientAddress, "pending")
        answer(ok, why, needs, id) ==
            [ allowed |-> ok, reason |-> why, requiresApproval |-> needs,
              pendingRequestId |-> id ]
    IN  IF amount <= cfg.autoApproveThreshold THEN answer(TRUE, "none", FALSE, <<>>)
        ELSE IF approved # 0 THEN answer(TRUE, "none", FALSE, <<>>)
        ELSE IF pending # 0
        THEN answer(FALSE, "Request is pending approval", TRUE, <<reqs[pending].id>>)
        ELSE IF cfg.requireApprovalForSubAccounts
        THEN answer(FALSE, "Approval required for this amount", TRUE, <<>>)
        ELSE answer(TRUE, "none", FALSE, <<>>)

\* cleanupExpiredRequests expiring every request past its expiresAt
cleanupExpiredRequestsAnyStatus(reqs, ms) ==
    [ i \in DOMAIN reqs |->
        IF reqs[i].expiresAt <= ms
        THEN [reqs[i] EXCEPT !.status = "expired"]
        ELSE reqs[i] ]

\* cleanupExpiredRequests dropping the requests found expired before expiring
\* the overdue pending ones
cleanupExpiredRequestsPurging(reqs, ms) ==
    LET kept == SelectSeq(reqs, LAMBDA req : req.status # "expired")
    IN  [ i \in DOMAIN kept |->
            IF kept[i].status = "pending" /\ kept[i].expiresAt <= ms
            THEN [kept[i] EXCEPT !.status = "expired"]
            ELSE kept[i] ]

\* cleanupExpiredRequests recording the time of expiry in rejectedAt
cleanupExpiredRequestsStamping(reqs, ms) ==
    [ i \in DOMAIN reqs |->
        IF reqs[i].status = "pending" /\ reqs[i].expiresAt <= ms
        THEN [reqs[i] EXCEPT !.status = "expired", !.rejectedAt = <<ms>>]
        ELSE reqs[i] ]

\* cleanupExpiredRequests(): the request list afterwards
cleanupExpiredRequests(reqs, ms) ==
    [ i \in DOMAIN reqs |->
        IF reqs[i].status = "pending" /\ reqs[i].expiresAt <= ms
        THEN [reqs[i] EXCEPT !.status = "expired"]
        ELSE reqs[i] ]

\* the number of requests with a status
CountStatus(reqs, status) == Cardinality({i \in DOMAIN reqs : reqs[i].status = status})

\* getStats leaving the expired requests out of the total
getStatsLiveTotal(reqs) ==
    [ total |-> Len(reqs) - CountStatus(reqs, "expired"),
      pending |-> CountStatus(reqs, "pending"),
      approved |-> CountStatus(reqs, "approved"),
      rejected |-> CountStatus(reqs, "rejected"),
      expired |-> CountStatus(reqs, "expired") ]

\* getStats(): the length of the list and one counter per stored status
getStats(reqs) ==
    [ total |-> Len(reqs),
      pending |-> CountStatus(reqs, "pending"),
      approved |-> CountStatus(reqs, "approved"),
      rejected |-> CountStatus(reqs, "rejected"),
      expired |-> CountStatus(reqs, "expired") ]

-----------------------------------------------------------------------------
(* Auto-Spend Arbiter: AutoSpendService *)

\* the configurations passed to setConfig
AutoSpendConfigs ==
    { [enabled |-> TRUE, subAccountId |-> "sub1", maxAmount |-> 10,
       requiresApproval |-> TRUE, approvalThreshold |-> 4],
      [enabled |-> TRUE, subAccountId |-> "sub1", maxAmount |-> 3,
       requiresApproval |-> FALSE, approvalThreshold |-> 1],
      [enabled |-> FALSE, subAccountId |-> "sub1", maxAmount |-> 10,
       requiresApproval |-> FALSE, approvalThreshold |-> 4] }

\* the amounts and the sub-accounts passed to the arbiter
AutoAmounts == {2, 3, 5, 11}
SubAccounts ==
    { [name |-> "Shopping", address |-> "0xsub1", isActive |-> active,
       dailySpendLimit |-> 20, totalSpentToday |-> spent] :
          active \in BOOLEAN, spent \in {0, 18} }
Recipients == {"0xabc"}

\* what a request to the wallet provider does: it returns a value or it throws
\* an error, whose message may be empty
Returns(value) == [ok |-> TRUE, value |-> value, message |-> ""]
Throws(message) == [ok |-> FALSE, value |-> "", message |-> message]

\* the paymentService arguments: <<>> is null, and its provider <<>> is undefined
PaymentServices ==
    { <<>>, <<[provider |-> <<>>]>> }
    \cup { <<[provider |-> <<[accounts |-> acc, sendCalls |-> send]>>]>> :
              acc \in {Returns("0xmain"), Throws("User rejected the request")},
              send \in {Returns("0xhash"), Throws("insufficient funds"), Throws("")} }

ErrAutoUnavailable == "Auto-spend not available for this transaction"
ErrNoProvider == "Provider not available for auto-spend"
ErrAutoFailed == "Auto-spend processing failed"
ErrNullService == "Cannot read properties of null (reading 'provider')"

\* loadConfig falling back on an enabled configuration when the stored text
\* does not parse
loadAutoConfigDefaultOn(store) ==
    IF store.autoSpendConfig = Absent THEN <<>>
    ELSE IF Parses(store.autoSpendConfig) THEN <<store.autoSpendConfig[1]>>
    ELSE <<[enabled |-> TRUE, subAccountId |-> "sub1", maxAmount |-> 10,
            requiresApproval |-> FALSE, approvalThreshold |-> 4]>>

\* loadConfig of the arbiter: the parsed blob as it is, null when there is none
\* or when it does not parse
loadAutoConfig(store) ==
    IF store.autoSpendConfig # Absent /\ Parses(store.autoSpendConfig)
    THEN <<store.autoSpendConfig[1]>>
    ELSE <<>>

\* this.config?.<key> taken as a condition: false for null and for a missing key
Truthy(cfg, key) == cfg # <<>> /\ key \in DOMAIN cfg[1] /\ cfg[1][key]

\* amount > this.config.<key>: false when the key is missing (undefined)
Exceeds(amount, cfg, key) == key \in DOMAIN cfg[1] /\ amount > cfg[1][key]

isEnabled(cfg) == Truthy(cfg, "enabled")

\* canAutoSpend with the remaining daily allowance compared by <=
canAutoSpendStrictRemaining(cfg, amount, subAccount) ==
    IF ~Truthy(cfg, "enabled") \/ ~subAccount.isActive THEN FALSE
    ELSE IF subAccount.dailySpendLimit - subAccount.totalSpentToday <= amount THEN FALSE
    ELSE IF Truthy(cfg, "requiresApproval") /\ Exceeds(amount, cfg, "approvalThreshold")
    THEN FALSE
    ELSE IF Exceeds(amount, cfg, "maxAmount") THEN FALSE
    ELSE TRUE

canAutoSpend(cfg, amount, subAccount) ==
    IF ~Truthy(cfg, "enabled") \/ ~subAccount.isActive THEN FALSE
    ELSE IF subAccount.dailySpendLimit - subAccount.totalSpentToday < amount THEN FALSE
    ELSE IF Truthy(cfg, "requiresApproval") /\ Exceeds(amount, cfg, "approvalThreshold")
    THEN FALSE
    ELSE IF Exceeds(amount, cfg, "maxAmount") THEN FALSE
    ELSE TRUE

\* the requests processAutoSpend sends to the provider
AccountsCall == [method |-> "eth_requestAccounts"]
TransferCall(amount, recipientAddress, subAccount) ==
    [ method |-> "wallet_sendCalls", from |-> subAccount.address,
      recipient |-> recipientAddress, units |-> amount * 1000000 ]

\* what processAutoSpend returns, and the requests it sent to the provider
Failure(error, calls) ==
    [ result |-> [success |-> FALSE, transactionHash |-> <<>>, error |-> error,
                  usedSubAccount |-> <<>>],
      calls |-> calls ]
\* Success charging the transfer to the sub-account it reports
SuccessCharging(hash, subAccount, calls) ==
    [ result |-> [success |-> TRUE, transactionHash |-> <<hash>>, error |-> "none",
                  usedSubAccount |->
                      <<[subAccount EXCEPT !.totalSpentToday = subAccount.dailySpendLimit]>>],
      calls |-> calls ]

Success(hash, subAccount, calls) ==
    [ result |-> [success |-> TRUE, transactionHash |-> <<hash>>, error |-> "none",
                  usedSubAccount |-> <<subAccount>>],
      calls |-> calls ]

\* error.message || 'Auto-spend processing failed'
MessageOf(outcome) == IF outcome.message # "" THEN outcome.message ELSE ErrAutoFailed

\* the transfer with the submission tried a second time when it fails
sendFromSubAccountRetrying(amount, recipientAddress, subAccount, paymentService) ==
    IF paymentService = <<>> THEN Failure(ErrNullService, <<>>)
    ELSE IF paymentService[1].provider = <<>> THEN Failure(ErrNoProvider, <<>>)
    ELSE LET provider == paymentService[1].provider[1]
             transfer == TransferCall(amount, recipientAddress, subAccount)
         IN  IF ~provider.accounts.ok
             THEN Failure(MessageOf(provider.accounts), <<AccountsCall>>)
             ELSE IF ~provider.sendCalls.ok
             THEN Failure(MessageOf(provider.sendCalls),
                          <<AccountsCall, transfer, transfer>>)
             ELSE Success(provider.sendCalls.value, subAccount,
                          <<AccountsCall, transfer>>)

\* processAutoSpend once canAutoSpend has passed: the provider is looked up, asked
\* for the accounts and then for the transfer; whatever is thrown on the way is
\* caught and returned as a failure
sendFromSubAccount(amount, recipientAddress, subAccount, paymentService) ==
    IF paymentService = <<>> THEN Failure(ErrNullService, <<>>)
    ELSE IF paymentService[1].provider = <<>> THEN Failure(ErrNoProvider, <<>>)
    ELSE LET provider == paymentService[1].provider[1]
             transfer == TransferCall(amount, recipientAddress, subAccount)
         IN  IF ~provider.accounts.ok
             THEN Failure(MessageOf(provider.accounts), <<AccountsCall>>)
             ELSE IF ~provider.sendCalls.ok
             THEN Failure(MessageOf(provider.sendCalls), <<AccountsCall, transfer>>)
             ELSE Success(provider.sendCalls.value, subAccount,
                          <<AccountsCall, transfer>>)

\* processAutoSpend without the canAutoSpend check
processAutoSpendUnchecked(cfg, amount, recipientAddress, subAccount, paymentService) ==
    sendFromSubAccount(amount, recipientAddress, subAccount, paymentService)

processAutoSpend(cfg, amount, recipientAddress, subAccount, paymentService) ==
    IF ~canAutoSpend(cfg, amount, subAccount)
    THEN Failure(ErrAutoUnavailable, <<>>)
    ELSE sendFromSubAccount(amount, recipientAddress, subAccount, paymentService)

getAutoSpendStatus(cfg, subAccount) ==
    [ canAutoSpend |-> canAutoSpend(cfg, 1, subAccount),
      remainingToday |-> subAccount.dailySpendLimit - subAccount.totalSpentToday,
      maxAutoSpend |-> IF cfg # <<>> /\ "maxAmount" \in DOMAIN cfg[1]
                       THEN cfg[1].maxAmount ELSE 0,
      requiresApproval |-> Truthy(cfg, "requiresApproval") ]

-----------------------------------------------------------------------------
(* The checkout's PaymentProvider *)

MaxInFlight == 2        \* processPayment calls awaiting the payment service

\* the addresses that sign in, the amounts and the recipients of payments
UserAddresses == {"0xalice", "0xbob"}
PaymentAmounts == {1}
Merchants == {"0xshop"}

ErrNotInitialized == "Payment service not initialized"
ErrNotAuthenticated == "User not authenticated"
ErrNoPermission == "Spend permission not granted. Please set spend permissions first."
ErrPaymentFailed == "Payment failed"

\* a PaymentResult; absent optional fields are <<>> and "none"
PaymentResult(ok, hash, error) ==
    [success |-> ok, transactionHash |-> hash, error |-> error]

\* what paymentService.processPayment does with a request: it resolves to a
\* PaymentResult, or it throws an Error with a message, or something that is not
\* an Error
PaymentOutcomes ==
    { [thrown |-> FALSE, isError |-> FALSE,
       result |-> PaymentResult(TRUE, <<"0xhash">>, "none"), message |-> ""],
      [thrown |-> FALSE, isError |-> FALSE,
       result |-> PaymentResult(FALSE, <<>>, "Insufficient USDC balance"), message |-> ""],
      [thrown |-> TRUE, isError |-> TRUE,
       result |-> PaymentResult(FALSE, <<>>, "none"), message |-> "network error"],
      [thrown |-> TRUE, isError |-> FALSE,
       result |-> PaymentResult(FALSE, <<>>, "none"), message |-> ""] }

\* the provider after the first render: the SDK not yet initialised, nobody
\* signed in, the useState defaults
InitialPayment ==
    [ paymentService |-> FALSE,         \* paymentService is not null
      user |-> <<>>,                    \* useAuth().user: <<>> is null
      hasSpendPermission |-> FALSE,
      isRequestingPermission |-> FALSE,
      isProcessing |-> FALSE,
      lastPaymentResult |-> <<>>,       \* <<>> is null
      permissionRequests |-> <<>>,      \* requestSpendPermission calls awaiting the wallet
      inFlight |-> <<>> ]               \* requests handed to the payment service

\* processPayment without the check of the spend permission
processPaymentUnpermitted(p, amount, recipientAddress) ==
    IF ~p.paymentService
    THEN [payment |-> p, result |-> <<PaymentResult(FALSE, <<>>, ErrNotInitialized)>>]
    ELSE IF p.user = <<>>
    THEN [payment |-> p, result |-> <<PaymentResult(FALSE, <<>>, ErrNotAuthenticated)>>]
    ELSE [ payment |-> [p EXCEPT !.isProcessing = TRUE,
                                 !.lastPaymentResult = <<>>,
                                 !.inFlight = Append(@, [amount |-> amount,
                                                         recipientAddress |-> recipientAddress,
                                                         userAddress |-> p.user[1]])],
           result |-> <<>> ]

\* processPayment up to its await: the provider afterwards and what the call has
\* returned so far, <<>> while the payment service is at work
processPayment(p, amount, recipientAddress) ==
    IF ~p.paymentService
    THEN [payment |-> p, result |-> <<PaymentResult(FALSE, <<>>, ErrNotInitialized)>>]
    ELSE IF p.user = <<>>
    THEN [payment |-> p, result |-> <<PaymentResult(FALSE, <<>>, ErrNotAuthenticated)>>]
    ELSE IF ~p.hasSpendPermission
    THEN [payment |-> p, result |-> <<PaymentResult(FALSE, <<>>, ErrNoPermission)>>]
    ELSE [ payment |-> [p EXCEPT !.isProcessing = TRUE,
                                 !.lastPaymentResult = <<>>,
                                 !.inFlight = Append(@, [amount |-> amount,
                                                         recipientAddress |-> recipientAddress,
                                                         userAddress |-> p.user[1]])],
           result |-> <<>> ]

\* what processPayment returns once the payment service has answered
settledResult(outcome) ==
    IF ~outcome.thrown THEN outcome.result
    ELSE PaymentResult(FALSE, <<>>,
                       IF outcome.isError THEN outcome.message ELSE ErrPaymentFailed)

-----------------------------------------------------------------------------
(* Period Spend Tracker: SpendLimitService *)

getDefaultConfig ==
    [ dailyLimit |-> 20,
      monthlyLimit |-> 500,
      requiresApproval |-> TRUE,
      approvalThreshold |-> 10,
      autoResetDaily |-> TRUE,
      autoResetMonthly |-> TRUE ]

\* loadConfig: the stored blob spread over the defaults, the defaults when absent
loadConfig(store) ==
    IF store.spendLimitConfig # Absent /\ Parses(store.spendLimitConfig)
    THEN Merge(getDefaultConfig, store.spendLimitConfig[1])
    ELSE getDefaultConfig

getDefaultTracking(cfg, ms) ==
    [ daily |-> [amount |-> 0, limit |-> cfg.dailyLimit, resetDate |-> ToDateString(ms)],
      monthly |-> [amount |-> 0, limit |-> cfg.monthlyLimit,
                   resetDate |-> FirstDayOfMonth(ms)],
      totalTransactions |-> 0,
      lastTransaction |-> <<>> ]

\* validateTracking: a window whose resetDate is not the current one starts afresh
validateTracking(t, cfg, ms) ==
    [ daily |-> IF t.daily.resetDate # ToDateString(ms)
                THEN [amount |-> 0, limit |-> cfg.dailyLimit,
                      resetDate |-> ToDateString(ms)]
                ELSE t.daily,
      monthly |-> IF t.monthly.resetDate # FirstDayOfMonth(ms)
                  THEN [amount |-> 0, limit |-> cfg.monthlyLimit,
                        resetDate |-> FirstDayOfMonth(ms)]
                  ELSE t.monthly,
      totalTransactions |-> t.totalTransactions,
      lastTransaction |-> t.lastTransaction ]

\* loadTracking: only here is validateTracking applied
loadTracking(store, cfg, ms) ==
    IF store.spendTracking # Absent /\ Parses(store.spendTracking)
    THEN validateTracking(store.spendTracking[1], cfg, ms)
    ELSE getDefaultTracking(cfg, ms)

\* new SpendLimitService() in another tab: its config and its tracking
newTracker(store, ms) ==
    [config |-> loadConfig(store), tracking |-> loadTracking(store, loadConfig(store), ms)]

\* canSpend with the monthly check ahead of the daily one
canSpendMonthlyFirst(t, cfg, amount) ==
    LET dailyRemaining == t.daily.limit - t.daily.amount
        monthlyRemaining == t.monthly.limit - t.monthly.amount
        result(ok, why) == [ allowed |-> ok, reason |-> why,
                             dailyRemaining |-> dailyRemaining,
                             monthlyRemaining |-> monthlyRemaining ]
    IN  IF amount > monthlyRemaining THEN result(FALSE, "monthly")
        ELSE IF amount > dailyRemaining THEN result(FALSE, "daily")
        ELSE IF cfg.requiresApproval /\ amount > cfg.approvalThreshold
             THEN result(FALSE, "approval")
        ELSE result(TRUE, "none")

\* canSpend asking for approval from the threshold on, not above it
canSpendThresholdInclusive(t, cfg, amount) ==
    LET dailyRemaining == t.daily.limit - t.daily.amount
        monthlyRemaining == t.monthly.limit - t.monthly.amount
        result(ok, why) == [ allowed |-> ok, reason |-> why,
                             dailyRemaining |-> dailyRemaining,
                             monthlyRemaining |-> monthlyRemaining ]
    IN  IF amount > dailyRemaining THEN result(FALSE, "daily")
        ELSE IF amount > monthlyRemaining THEN result(FALSE, "monthly")
        ELSE IF cfg.requiresApproval /\ amount >= cfg.approvalThreshold
             THEN result(FALSE, "approval")
        ELSE result(TRUE, "none")

\* canSpend(amount): the returned object; reason "none" is an absent reason
canSpend(t, cfg, amount) ==
    LET dailyRemaining == t.daily.limit - t.daily.amount
        monthlyRemaining == t.monthly.limit - t.monthly.amount
        result(ok, why) == [ allowed |-> ok, reason |-> why,
                             dailyRemaining |-> dailyRemaining,
                             monthlyRemaining |-> monthlyRemaining ]
    IN  IF amount > dailyRemaining THEN result(FALSE, "daily")
        ELSE IF amount > monthlyRemaining THEN result(FALSE, "monthly")
        ELSE IF cfg.requiresApproval /\ amount > cfg.approvalThreshold
             THEN result(FALSE, "approval")
        ELSE result(TRUE, "none")

\* recordSpend leaving the monthly accumulator out
recordSpendDailyOnly(t, amount, sub, ms) ==
    [ daily |-> [t.daily EXCEPT !.amount = @ + amount],
      monthly |-> t.monthly,
      totalTransactions |-> t.totalTransactions + 1,
      lastTransaction |-> <<[amount |-> amount, timestamp |-> ms, subAccountId |-> sub]>> ]

\* recordSpend refusing an amount above the remaining daily budget
recordSpendChecked(t, amount, sub, ms) ==
    IF amount > t.daily.limit - t.daily.amount
    THEN t
    ELSE [ daily |-> [t.daily EXCEPT !.amount = @ + amount],
           monthly |-> [t.monthly EXCEPT !.amount = @ + amount],
           totalTransactions |-> t.totalTransactions + 1,
           lastTransaction |->
               <<[amount |-> amount, timestamp |-> ms, subAccountId |-> sub]>> ]

\* the tracking object after recordSpend(amount, subAccountId)
recordSpend(t, amount, sub, ms) ==
    [ daily |-> [t.daily EXCEPT !.amount = @ + amount],
      monthly |-> [t.monthly EXCEPT !.amount = @ + amount],
      totalTransactions |-> t.totalTransactions + 1,
      lastTransaction |-> <<[amount |-> amount, timestamp |-> ms, subAccountId |-> sub]>> ]

\* getSpendStatus(): spent, limit and remaining of both windows (the percentage,
\* a floating-point quotient, is left out)
getSpendStatus(t) ==
    [ daily |-> [spent |-> t.daily.amount, limit |-> t.daily.limit,
                 remaining |-> t.daily.limit - t.daily.amount],
      monthly |-> [spent |-> t.monthly.amount, limit |-> t.monthly.limit,
                   remaining |-> t.monthly.limit - t.monthly.amount],
      totalTransactions |-> t.totalTransactions ]

Op(name, amount, result) == [name |-> name, amount |-> amount, result |-> result]

\* new SpendLimitService(): a page load constructs the service from storage
Construct ==
    /\ config' = loadConfig(localStorage)
    /\ tracking' = loadTracking(localStorage, loadConfig(localStorage), now)
    /\ lastOp' = Op("construct", 0, <<>>)
    /\ UNCHANGED <<now, localStorage, ledgerVars, arbiterVars, otherVars>>

UpdateConfig ==
    \E p \in PartialSpendConfigs :
        /\ config' = Merge(config, p)
        /\ localStorage' = [localStorage EXCEPT !.spendLimitConfig = <<Merge(config, p)>>]
        /\ lastOp' = Op("updateConfig", 0, <<>>)
        /\ UNCHANGED <<now, tracking, ledgerVars, arbiterVars, otherVars>>

CanSpend ==
    \E a \in Amounts :
        /\ lastOp' = Op("canSpend", a, canSpend(tracking, config, a))
        /\ UNCHANGED <<now, localStorage, config, tracking, ledgerVars, arbiterVars, otherVars>>

GetTracking ==
    /\ lastOp' = Op("getTracking", 0, tracking)
    /\ UNCHANGED <<now, localStorage, config, tracking, ledgerVars, arbiterVars, otherVars>>

GetSpendStatus ==
    /\ lastOp' = Op("getSpendStatus", 0, getSpendStatus(tracking))
    /\ UNCHANGED <<now, localStorage, config, tracking, ledgerVars, arbiterVars, otherVars>>

RecordSpend ==
    \E a \in SpendAmounts, sub \in SubAccountArgs :
        /\ tracking.totalTransactions < MaxTx
        /\ tracking' = recordSpend(tracking, a, sub, now)
        /\ localStorage' = [localStorage EXCEPT
                               !.spendTracking = <<recordSpend(tracking, a, sub, now)>>]
        /\ lastOp' = Op("recordSpend", a, <<>>)
        /\ UNCHANGED <<now, config, ledgerVars, arbiterVars, otherVars>>

\* resetDaily clearing the monthly amount as well
resetDailyAndMonthly(t, ms) ==
    [t EXCEPT !.daily.amount = 0, !.daily.resetDate = ToDateString(ms),
              !.monthly.amount = 0]

resetDaily(t, ms) ==
    [t EXCEPT !.daily.amount = 0, !.daily.resetDate = ToDateString(ms)]

resetMonthly(t, ms) ==
    [t EXCEPT !.monthly.amount = 0, !.monthly.resetDate = FirstDayOfMonth(ms)]

ResetDaily ==
    /\ tracking' = resetDaily(tracking, now)
    /\ localStorage' = [localStorage EXCEPT !.spendTracking = <<resetDaily(tracking, now)>>]
    /\ lastOp' = Op("resetDaily", 0, <<>>)
    /\ UNCHANGED <<now, config, ledgerVars, arbiterVars, otherVars>>

ResetMonthly ==
    /\ tracking' = resetMonthly(tracking, now)
    /\ localStorage' = [localStorage EXCEPT !.spendTracking = <<resetMonthly(tracking, now)>>]
    /\ lastOp' = Op("resetMonthly", 0, <<>>)
    /\ UNCHANGED <<now, config, ledgerVars, arbiterVars, otherVars>>

\* midnight passes while the page stays open
NextDay ==
    /\ ToDateString(now) < MaxDay
    /\ now' = now + MsPerDay
    /\ lastOp' = Op("nextDay", 0, <<>>)
    /\ UNCHANGED <<localStorage, trackerVars, ledgerVars, arbiterVars, otherVars>>

EmptyStorage ==
    [ spendLimitConfig |-> Absent, spendTracking |-> Absent,
      permissionApprovalConfig |-> Absent, permissionRequests |-> Absent,
      autoSpendConfig |-> Absent ]

\* first page load: nothing stored, the service constructed from defaults
TrackerInit ==
    /\ now = 0
    /\ localStorage = EmptyStorage
    /\ config = loadConfig(EmptyStorage)
    /\ tracking = loadTracking(EmptyStorage, loadConfig(EmptyStorage), 0)
    /\ permConfig = loadPermConfig(EmptyStorage)
    /\ requests = loadRequests(EmptyStorage)
    /\ autoConfig = loadAutoConfig(EmptyStorage)
    /\ tracker2 = newTracker(EmptyStorage, 0)
    /\ payment = InitialPayment
    /\ lastOp = Op("construct", 0, <<>>)

TrackerNext ==
    \/ Construct
    \/ UpdateConfig
    \/ CanSpend
    \/ GetTracking
    \/ GetSpendStatus
    \/ RecordSpend
    \/ ResetDaily
    \/ ResetMonthly
    \/ NextDay

TrackerSpec == TrackerInit /\ [][TrackerNext]_vars

-----------------------------------------------------------------------------
(* Two tabs: two SpendLimitService instances over one localStorage *)

\* an operation of the instance of the second tab
Op2(name, amount, result) ==
    [name |-> name, amount |-> amount, result |-> result, instance |-> 2]

\* new SpendLimitService() in the second tab
Construct2 ==
    /\ tracker2' = newTracker(localStorage, now)
    /\ lastOp' = Op2("construct", 0, <<>>)
    /\ UNCHANGED <<now, localStorage, trackerVars, ledgerVars, arbiterVars, payment>>

\* recordSpend in the second tab: it adds to its own copy and saves that copy
RecordSpend2 ==
    \E a \in SpendAmounts, sub \in SubAccountArgs :
        /\ tracker2.tracking.totalTransactions < MaxTx
        /\ tracker2' = [tracker2 EXCEPT !.tracking = recordSpend(@, a, sub, now)]
        /\ localStorage' = [localStorage EXCEPT
                               !.spendTracking =
                                   <<recordSpend(tracker2.tracking, a, sub, now)>>]
        /\ lastOp' = Op2("recordSpend", a, <<>>)
        /\ UNCHANGED <<now, trackerVars, ledgerVars, arbiterVars, payment>>

TwoTabNext ==
    \/ Construct
    \/ RecordSpend
    \/ Construct2
    \/ RecordSpend2

\* both tabs have loaded the page over the same empty storage
TwoTabSpec == TrackerInit /\ [][TwoTabNext]_vars

-----------------------------------------------------------------------------
(* The ledger's operations *)

LedgerOp(name, args, result) == [name |-> name, args |-> args, result |-> result]

\* an operation that ended in an exception the caller receives
Thrown(name, args, error) ==
    [name |-> name, args |-> args, result |-> <<>>, thrown |-> error]

\* new PermissionApprovalService(): a page load constructs the ledger from storage
LedgerConstruct ==
    /\ permConfig' = loadPermConfig(localStorage)
    /\ requests' = loadRequests(localStorage)
    /\ lastOp' = LedgerOp("construct", <<>>, <<>>)
    /\ UNCHANGED <<now, localStorage, trackerVars, arbiterVars, otherVars>>

UpdatePermConfig ==
    \E p \in PartialPermConfigs :
        /\ permConfig' = Merge(permConfig, p)
        /\ localStorage' =
               [localStorage EXCEPT !.permissionApprovalConfig = <<Merge(permConfig, p)>>]
        /\ lastOp' = LedgerOp("updateConfig", <<>>, <<>>)
        /\ UNCHANGED <<now, requests, trackerVars, arbiterVars, otherVars>>

\* requestPermission; the random suffix of the id is new for every request
RequestPermission ==
    \E sub \in {"sub1"}, a \in RequestAmounts, rcpt \in Addresses, why \in Purposes :
        LET out == requestPermission(requests, permConfig, now, Len(requests) + 1,
                                     sub, a, rcpt, why)
            args == [subAccountId |-> sub, amount |-> a,
                     recipientAddress |-> rcpt, purpose |-> why]
            \* without an array the recipient checks still run, then
            \* getPendingRequests throws and the catch returns the message
            caught ==
                IF Includes(permConfig.blockedRecipients, toLowerCase(rcpt))
                THEN ErrBlocked
                ELSE IF Len(permConfig.allowedRecipients) > 0
                        /\ ~Includes(permConfig.allowedRecipients, toLowerCase(rcpt))
                THEN ErrNotAllowed
                ELSE ErrNoFilter
        IN  IF IsArray(requests)
            THEN /\ Len(out.requests) <= MaxRequests
                 /\ requests' = out.requests
                 /\ localStorage' =
                        IF out.result.success
                        THEN [localStorage EXCEPT !.permissionRequests = <<out.requests>>]
                        ELSE localStorage
                 /\ lastOp' = LedgerOp("requestPermission", args, out.result)
                 /\ UNCHANGED <<now, permConfig, trackerVars, arbiterVars, otherVars>>
            ELSE /\ lastOp' = LedgerOp("requestPermission", args,
                                       [success |-> FALSE, requestId |-> <<>>,
                                        autoApproved |-> <<>>, error |-> caught])
                 /\ UNCHANGED <<now, localStorage, ledgerVars, trackerVars, arbiterVars, otherVars>>

\* the ids a caller may pass: those of the ledger's requests, and one of none
KnownIds ==
    IF IsArray(requests)
    THEN {requests[i].id : i \in DOMAIN requests} \cup {MissingId}
    ELSE {MissingId}

ApproveRequest ==
    \E id \in KnownIds, by \in Approvers :
        LET out == approveRequest(requests, now, id, by)
            args == [requestId |-> id, approvedBy |-> by]
        IN  IF IsArray(requests)
            THEN /\ requests' = out.requests
                 /\ localStorage' =
                        IF out.result.error \in {ErrNotFound, ErrNotPending}
                        THEN localStorage
                        ELSE [localStorage EXCEPT !.permissionRequests = <<out.requests>>]
                 /\ lastOp' = LedgerOp("approveRequest", args, out.result)
                 /\ UNCHANGED <<now, permConfig, trackerVars, arbiterVars, otherVars>>
            \* getRequestById throws inside the try: the catch returns the message
            ELSE /\ lastOp' = LedgerOp("approveRequest", args,
                                       [success |-> FALSE, error |-> ErrNoFind])
                 /\ UNCHANGED <<now, localStorage, ledgerVars, trackerVars, arbiterVars, otherVars>>

RejectRequest ==
    \E id \in KnownIds, by \in Approvers, why \in RejectionReasons :
        LET out == rejectRequest(requests, now, id, by, why)
            args == [requestId |-> id, rejectedBy |-> by, reason |-> why]
        IN  IF IsArray(requests)
            THEN /\ requests' = out.requests
                 /\ localStorage' =
                        IF out.result.success
                        THEN [localStorage EXCEPT !.permissionRequests = <<out.requests>>]
                        ELSE localStorage
                 /\ lastOp' = LedgerOp("rejectRequest", args, out.result)
                 /\ UNCHANGED <<now, permConfig, trackerVars, arbiterVars, otherVars>>
            \* getRequestById throws inside the try: the catch returns the message
            ELSE /\ lastOp' = LedgerOp("rejectRequest", args,
                                       [success |-> FALSE, error |-> ErrNoFind])
                 /\ UNCHANGED <<now, localStorage, ledgerVars, trackerVars, arbiterVars, otherVars>>

PermissionCanSpend ==
    \E sub \in SubAccountIds, a \in RequestAmounts, rcpt \in ProbeAddresses :
        LET args == [subAccountId |-> sub, amount |-> a, recipientAddress |-> rcpt]
        IN  \* canSpend has no try: past the threshold test, find throws to the caller
            /\ lastOp' =
                   IF IsArray(requests) \/ a <= permConfig.autoApproveThreshold
                   THEN LedgerOp("canSpend", args,
                                 permissionCanSpend(requests, permConfig, now, sub, a, rcpt))
                   ELSE Thrown("canSpend", args, ErrNoFind)
            /\ UNCHANGED <<now, localStorage, ledgerVars, trackerVars, arbiterVars, otherVars>>

CleanupExpiredRequests ==
    IF IsArray(requests)
    THEN /\ requests' = cleanupExpiredRequests(requests, now)
         /\ localStorage' =
                [localStorage EXCEPT
                    !.permissionRequests = <<cleanupExpiredRequests(requests, now)>>]
         /\ lastOp' = LedgerOp("cleanupExpiredRequests", <<>>, <<>>)
         /\ UNCHANGED <<now, permConfig, trackerVars, arbiterVars, otherVars>>
    \* cleanupExpiredRequests has no try: map throws to the caller, nothing is saved
    ELSE /\ lastOp' = Thrown("cleanupExpiredRequests", <<>>, ErrNoMap)
         /\ UNCHANGED <<now, localStorage, ledgerVars, trackerVars, arbiterVars, otherVars>>

GetStats ==
    /\ lastOp' = IF IsArray(requests)
                 THEN LedgerOp("getStats", <<>>, getStats(requests))
                 \* getStats has no try: forEach throws to the caller
                 ELSE Thrown("getStats", <<>>, "this.requests.forEach is not a function")
    /\ UNCHANGED <<now, localStorage, ledgerVars, trackerVars, arbiterVars, otherVars>>

\* a day passes: 24 hours, the default life of a request
LedgerNextDay ==
    /\ ToDateString(now) < MaxLedgerDay
    /\ now' = now + MsPerDay
    /\ lastOp' = LedgerOp("nextDay", <<>>, <<>>)
    /\ UNCHANGED <<localStorage, trackerVars, ledgerVars, arbiterVars, otherVars>>

\* first page load: nothing stored, the ledger empty with the default configuration
LedgerInit ==
    /\ now = 0
    /\ localStorage = EmptyStorage
    /\ config = loadConfig(EmptyStorage)
    /\ tracking = loadTracking(EmptyStorage, loadConfig(EmptyStorage), 0)
    /\ permConfig = loadPermConfig(EmptyStorage)
    /\ requests = loadRequests(EmptyStorage)
    /\ autoConfig = loadAutoConfig(EmptyStorage)
    /\ tracker2 = newTracker(EmptyStorage, 0)
    /\ payment = InitialPayment
    /\ lastOp = LedgerOp("construct", <<>>, <<>>)

LedgerNext ==
    \/ LedgerConstruct
    \/ UpdatePermConfig
    \/ RequestPermission
    \/ ApproveRequest
    \/ RejectRequest
    \/ PermissionCanSpend
    \/ CleanupExpiredRequests
    \/ GetStats
    \/ LedgerNextDay

LedgerSpec == LedgerInit /\ [][LedgerNext]_vars

-----------------------------------------------------------------------------
(* The arbiter's operations *)

ArbiterOp(name, args, result, calls) ==
    [name |-> name, args |-> args, result |-> result, calls |-> calls]

\* new AutoSpendService(): a page load constructs the arbiter from storage
ArbiterConstruct ==
    /\ autoConfig' = loadAutoConfig(localStorage)
    /\ lastOp' = ArbiterOp("construct", <<>>, <<>>, <<>>)
    /\ UNCHANGED <<now, localStorage, trackerVars, ledgerVars, otherVars>>

SetConfig ==
    \E c \in AutoSpendConfigs :
        /\ autoConfig' = <<c>>
        /\ localStorage' = [localStorage EXCEPT !.autoSpendConfig = <<c>>]
        /\ lastOp' = ArbiterOp("setConfig", c, <<>>, <<>>)
        /\ UNCHANGED <<now, trackerVars, ledgerVars, otherVars>>

GetAutoConfig ==
    /\ lastOp' = ArbiterOp("getConfig", <<>>, autoConfig, <<>>)
    /\ UNCHANGED <<now, localStorage, trackerVars, ledgerVars, arbiterVars, otherVars>>

IsEnabled ==
    /\ lastOp' = ArbiterOp("isEnabled", <<>>, isEnabled(autoConfig), <<>>)
    /\ UNCHANGED <<now, localStorage, trackerVars, ledgerVars, arbiterVars, otherVars>>

CanAutoSpend ==
    \E a \in AutoAmounts, sub \in SubAccounts :
        /\ lastOp' = ArbiterOp("canAutoSpend", [amount |-> a, subAccount |-> sub],
                               canAutoSpend(autoConfig, a, sub), <<>>)
        /\ UNCHANGED <<now, localStorage, trackerVars, ledgerVars, arbiterVars, otherVars>>

ProcessAutoSpend ==
    \E a \in AutoAmounts, rcpt \in Recipients, sub \in SubAccounts,
       svc \in PaymentServices :
        LET out == processAutoSpend(autoConfig, a, rcpt, sub, svc)
        IN  /\ lastOp' = ArbiterOp("processAutoSpend",
                                   [amount |-> a, recipientAddress |-> rcpt,
                                    subAccount |-> sub, paymentService |-> svc],
                                   out.result, out.calls)
            /\ UNCHANGED <<now, localStorage, trackerVars, ledgerVars, arbiterVars, otherVars>>

GetAutoSpendStatus ==
    \E sub \in SubAccounts :
        /\ lastOp' = ArbiterOp("getAutoSpendStatus", [subAccount |-> sub],
                               getAutoSpendStatus(autoConfig, sub), <<>>)
        /\ UNCHANGED <<now, localStorage, trackerVars, ledgerVars, arbiterVars, otherVars>>

ResetConfig ==
    /\ autoConfig' = <<>>
    /\ localStorage' = [localStorage EXCEPT !.autoSpendConfig = Absent]
    /\ lastOp' = ArbiterOp("resetConfig", <<>>, <<>>, <<>>)
    /\ UNCHANGED <<now, trackerVars, ledgerVars, otherVars>>

\* the page loads with nothing stored for the arbiter, or with a text that does
\* not parse
ArbiterInit ==
    /\ now = 0
    /\ localStorage \in {EmptyStorage,
                         [EmptyStorage EXCEPT !.autoSpendConfig = Unparsable]}
    /\ config = loadConfig(localStorage)
    /\ tracking = loadTracking(localStorage, loadConfig(localStorage), 0)
    /\ permConfig = loadPermConfig(localStorage)
    /\ requests = loadRequests(localStorage)
    /\ autoConfig = loadAutoConfig(localStorage)
    /\ tracker2 = newTracker(localStorage, 0)
    /\ payment = InitialPayment
    /\ lastOp = ArbiterOp("construct", <<>>, <<>>, <<>>)

ArbiterNext ==
    \/ ArbiterConstruct
    \/ SetConfig
    \/ GetAutoConfig
    \/ IsEnabled
    \/ CanAutoSpend
    \/ ProcessAutoSpend
    \/ GetAutoSpendStatus
    \/ ResetConfig

ArbiterSpec == ArbiterInit /\ [][ArbiterNext]_vars

-----------------------------------------------------------------------------
(* Page loads over a damaged store *)

\* stores with one damaged entry or with all of them damaged: a text that does
\* not parse under any key, an object where the request list is expected, an
\* object without most fields where the arbiter's configuration is expected
CorruptStores ==
    { [EmptyStorage EXCEPT ![key] = Unparsable] : key \in DOMAIN EmptyStorage }
    \cup { [key \in DOMAIN EmptyStorage |-> Unparsable],
           [EmptyStorage EXCEPT !.permissionRequests = <<NotAnArray>>],
           [EmptyStorage EXCEPT !.autoSpendConfig = <<[enabled |-> TRUE]>>] }

\* the three services constructed from a damaged store
StorageInit ==
    /\ now = 0
    /\ localStorage \in CorruptStores
    /\ config = loadConfig(localStorage)
    /\ tracking = loadTracking(localStorage, loadConfig(localStorage), 0)
    /\ permConfig = loadPermConfig(localStorage)
    /\ requests = loadRequests(localStorage)
    /\ autoConfig = loadAutoConfig(localStorage)
    /\ tracker2 = newTracker(localStorage, 0)
    /\ payment = InitialPayment
    /\ lastOp = LedgerOp("construct", <<>>, <<>>)

StorageNext ==
    \/ Construct
    \/ CanSpend
    \/ GetSpendStatus
    \/ LedgerConstruct
    \/ RequestPermission
    \/ ApproveRequest
    \/ RejectRequest
    \/ PermissionCanSpend
    \/ CleanupExpiredRequests
    \/ ArbiterConstruct
    \/ IsEnabled
    \/ CanAutoSpend

StorageSpec == StorageInit /\ [][StorageNext]_vars

-----------------------------------------------------------------------------
(* The checkout flow: PaymentProvider *)

PaymentOp(name, args, result) == [name |-> name, args |-> args, result |-> result]

\* the sequence without its i-th element
RemoveAt(seq, i) == SubSeq(seq, 1, i - 1) \o SubSeq(seq, i + 1, Len(seq))

\* BaseAccountProvider has set sdk, provider and walletClient: the memo yields a
\* PaymentService
SdkInitialized ==
    /\ ~payment.paymentService
    /\ payment' = [payment EXCEPT !.paymentService = TRUE]
    /\ lastOp' = PaymentOp("initialize", <<>>, <<>>)
    /\ UNCHANGED <<now, localStorage, trackerVars, ledgerVars, arbiterVars, tracker2>>

\* AuthProvider.signIn has authenticated an address
SignIn ==
    \E address \in UserAddresses :
        /\ payment.user = <<>>
        /\ payment' = [payment EXCEPT !.user = <<address>>]
        /\ lastOp' = PaymentOp("signIn", address, <<>>)
        /\ UNCHANGED <<now, localStorage, trackerVars, ledgerVars, arbiterVars, tracker2>>

SignOut ==
    /\ payment.user # <<>>
    /\ payment' = [payment EXCEPT !.user = <<>>]
    /\ lastOp' = PaymentOp("signOut", <<>>, <<>>)
    /\ UNCHANGED <<now, localStorage, trackerVars, ledgerVars, arbiterVars, tracker2>>

\* requestSpendPermission up to its await: false at once without SDK or user
RequestSpendPermission ==
    /\ Len(payment.permissionRequests) < MaxInFlight
    /\ IF ~payment.paymentService \/ payment.user = <<>>
       THEN /\ lastOp' = PaymentOp("requestSpendPermission", <<>>, <<FALSE>>)
            /\ UNCHANGED payment
       ELSE /\ payment' = [payment EXCEPT !.isRequestingPermission = TRUE,
                                          !.permissionRequests =
                                              Append(@, payment.user[1])]
            /\ lastOp' = PaymentOp("requestSpendPermission", <<>>, <<>>)
    /\ UNCHANGED <<now, localStorage, trackerVars, ledgerVars, arbiterVars, tracker2>>

\* the wallet answers a permission request: the user signs or declines
PermissionAnswered ==
    \E i \in DOMAIN payment.permissionRequests, granted \in BOOLEAN :
        /\ payment' = [payment EXCEPT
                           !.hasSpendPermission = IF granted THEN TRUE ELSE @,
                           !.isRequestingPermission = FALSE,
                           !.permissionRequests = RemoveAt(@, i)]
        /\ lastOp' = PaymentOp("requestSpendPermission.settled",
                               payment.permissionRequests[i], <<granted>>)
        /\ UNCHANGED <<now, localStorage, trackerVars, ledgerVars, arbiterVars, tracker2>>

ProcessPayment ==
    \E a \in PaymentAmounts, rcpt \in Merchants :
        LET out == processPayment(payment, a, rcpt)
        IN  /\ Len(out.payment.inFlight) <= MaxInFlight
            /\ payment' = out.payment
            /\ lastOp' = PaymentOp("processPayment",
                                   [amount |-> a, recipientAddress |-> rcpt], out.result)
            /\ UNCHANGED <<now, localStorage, trackerVars, ledgerVars, arbiterVars,
                           tracker2>>

\* the payment service answers one of the requests it was handed
PaymentSettled ==
    \E i \in DOMAIN payment.inFlight, outcome \in PaymentOutcomes :
        /\ payment' = [payment EXCEPT
                           !.lastPaymentResult = <<settledResult(outcome)>>,
                           !.isProcessing = FALSE,
                           !.inFlight = RemoveAt(@, i)]
        /\ lastOp' = PaymentOp("processPayment.settled", payment.inFlight[i],
                               <<settledResult(outcome)>>)
        /\ UNCHANGED <<now, localStorage, trackerVars, ledgerVars, arbiterVars, tracker2>>

ClearPaymentResult ==
    /\ payment' = [payment EXCEPT !.lastPaymentResult = <<>>]
    /\ lastOp' = PaymentOp("clearPaymentResult", <<>>, <<>>)
    /\ UNCHANGED <<now, localStorage, trackerVars, ledgerVars, arbiterVars, tracker2>>

\* the page has loaded: nothing stored, the provider in its first render
PaymentInit ==
    /\ now = 0
    /\ localStorage = EmptyStorage
    /\ config = loadConfig(EmptyStorage)
    /\ tracking = loadTracking(EmptyStorage, loadConfig(EmptyStorage), 0)
    /\ permConfig = loadPermConfig(EmptyStorage)
    /\ requests = loadRequests(EmptyStorage)
    /\ autoConfig = loadAutoConfig(EmptyStorage)
    /\ tracker2 = newTracker(EmptyStorage, 0)
    /\ payment = InitialPayment
    /\ lastOp = PaymentOp("render", <<>>, <<>>)

PaymentNext ==
    \/ SdkInitialized
    \/ SignIn
    \/ SignOut
    \/ RequestSpendPermission
    \/ PermissionAnswered
    \/ ProcessPayment
    \/ PaymentSettled
    \/ ClearPaymentResult

PaymentSpec == PaymentInit /\ [][PaymentNext]_vars

-----------------------------------------------------------------------------
(* Properties of the Period Spend Tracker *)

\* the operations that read the tracking state
ReadOps == {"canSpend", "getTracking", "getSpendStatus"}

\* C1: canSpend checks the daily budget first: an amount above dailyRemaining is
\* denied citing the daily limit whatever the monthly headroom is, and the monthly
\* limit is cited only for an amount that fits dailyRemaining and exceeds
\* monthlyRemaining.
C1_DailyCheckFirst ==
    lastOp.name = "canSpend" =>
        LET r == lastOp.result
        IN  /\ r.dailyRemaining = tracking.daily.limit - tracking.daily.amount
            /\ r.monthlyRemaining = tracking.monthly.limit - tracking.monthly.amount
            /\ lastOp.amount > r.dailyRemaining => (~r.allowed /\ r.reason = "daily")
            /\ r.reason = "monthly" =>
                   /\ ~r.allowed
                   /\ lastOp.amount <= r.dailyRemaining
                   /\ lastOp.amount > r.monthlyRemaining

\* a canSpend call whose amount exceeds both remaining budgets
C1_Witness ==
    /\ lastOp.name = "canSpend"
    /\ lastOp.amount > lastOp.result.dailyRemaining
    /\ lastOp.amount > lastOp.result.monthlyRemaining
    /\ lastOp.result.reason = "daily"

\* C2: after every read of the tracking state (canSpend, getTracking,
\* getSpendStatus) both windows are the current ones: the daily resetDate is today
\* and the monthly resetDate is the first day of this month, a stale window having
\* been zeroed by the read.
C2_RolloverOnRead ==
    lastOp.name \in ReadOps =>
        /\ tracking.daily.resetDate = ToDateString(now)
        /\ tracking.monthly.resetDate = FirstDayOfMonth(now)

\* C3: for an amount that fits both remaining budgets, canSpend denies with the
\* approval reason exactly when requiresApproval holds and the amount is above
\* approvalThreshold, and allows otherwise; the remaining budgets it reports are
\* the budgets before the amount (limit minus accumulated amount).
C3_ApprovalGate ==
    (/\ lastOp.name = "canSpend"
     /\ lastOp.amount <= tracking.daily.limit - tracking.daily.amount
     /\ lastOp.amount <= tracking.monthly.limit - tracking.monthly.amount) =>
        LET r == lastOp.result
            needsApproval == config.requiresApproval
                                /\ lastOp.amount > config.approvalThreshold
        IN  /\ (~r.allowed /\ r.reason = "approval") <=> needsApproval
            /\ (r.allowed /\ r.reason = "none") <=> ~needsApproval
            /\ r.dailyRemaining = tracking.daily.limit - tracking.daily.amount
            /\ r.monthlyRemaining = tracking.monthly.limit - tracking.monthly.amount

\* limits 20/500, threshold 10: canSpend(15) is denied for approval, 20 remaining
C3_Witness ==
    /\ lastOp.name = "canSpend"
    /\ lastOp.amount = 15
    /\ tracking.daily.limit = 20 /\ tracking.monthly.limit = 500
    /\ config.requiresApproval /\ config.approvalThreshold = 10
    /\ lastOp.result = [allowed |-> FALSE, reason |-> "approval",
                        dailyRemaining |-> 20, monthlyRemaining |-> 500]

\* C4: a recordSpend(x) step raises the daily and the monthly amount by exactly x
\* and totalTransactions by exactly 1, and a read step changes neither the tracking
\* state nor what is stored.
C4_RecordOnce ==
    [][ /\ lastOp'.name = "recordSpend" =>
              /\ tracking'.daily.amount = tracking.daily.amount + lastOp'.amount
              /\ tracking'.monthly.amount = tracking.monthly.amount + lastOp'.amount
              /\ tracking'.totalTransactions = tracking.totalTransactions + 1
        /\ lastOp'.name \in ReadOps =>
              /\ tracking' = tracking
              /\ localStorage' = localStorage ]_vars

\* two spends of 15 in one window, then a read: 30 accumulated, 2 transactions
C4_Witness ==
    /\ lastOp.name \in ReadOps
    /\ tracking.totalTransactions = 2
    /\ tracking.daily.amount = 30
    /\ tracking.monthly.amount = 30

\* C5: recordSpend applies its increments also for an amount canSpend denies, and
\* while the accumulated daily amount is above the daily limit canSpend reports a
\* negative dailyRemaining and denies every positive amount citing the daily limit.
C5_RecordUnconditional ==
    /\ [][ (/\ lastOp'.name = "recordSpend"
            /\ ~canSpend(tracking, config, lastOp'.amount).allowed) =>
               /\ tracking'.daily.amount = tracking.daily.amount + lastOp'.amount
               /\ tracking'.monthly.amount = tracking.monthly.amount + lastOp'.amount ]_vars
    /\ [](tracking.daily.amount > tracking.daily.limit =>
            \A a \in Amounts :
                a > 0 => LET r == canSpend(tracking, config, a)
                         IN  r.dailyRemaining < 0 /\ ~r.allowed /\ r.reason = "daily")

\* a denied spend was recorded, and canSpend now answers from above the limit
C5_Witness ==
    /\ lastOp.name = "canSpend"
    /\ lastOp.amount > 0
    /\ tracking.daily.amount > tracking.daily.limit
    /\ lastOp.result.dailyRemaining < 0
    /\ lastOp.result.reason = "daily"

\* C22: the dailyRemaining that canSpend reports is the configured dailyLimit
\* minus the accumulated daily amount, and monthlyRemaining the configured
\* monthlyLimit minus the accumulated monthly amount, also after updateConfig
\* has changed a limit and after resetDaily and resetMonthly.
C22_RemainingFromConfig ==
    lastOp.name = "canSpend" =>
        /\ lastOp.result.dailyRemaining = config.dailyLimit - tracking.daily.amount
        /\ lastOp.result.monthlyRemaining =
               config.monthlyLimit - tracking.monthly.amount

\* C25: in every tracking state the accumulated daily amount and the
\* accumulated monthly amount are at least 0, whatever recordSpend, resetDaily,
\* resetMonthly, updateConfig and reloads came before.
C25_AmountsNonNegative ==
    /\ tracking.daily.amount >= 0
    /\ tracking.monthly.amount >= 0

\* C31: resetDaily and resetMonthly are independent manual resets. resetDaily
\* sets the daily amount to 0 and the daily resetDate to the current day and
\* leaves the daily limit, the monthly window, totalTransactions,
\* lastTransaction and the configuration as they were; resetMonthly does the
\* same for the monthly window, with the first day of the current month, and
\* leaves the daily window as it was.
C31_IndependentResets ==
    [][ /\ lastOp'.name = "resetDaily" =>
              /\ tracking'.daily = [amount |-> 0, limit |-> tracking.daily.limit,
                                    resetDate |-> ToDateString(now)]
              /\ tracking'.monthly = tracking.monthly
              /\ tracking'.totalTransactions = tracking.totalTransactions
              /\ tracking'.lastTransaction = tracking.lastTransaction
              /\ config' = config
        /\ lastOp'.name = "resetMonthly" =>
              /\ tracking'.monthly = [amount |-> 0, limit |-> tracking.monthly.limit,
                                      resetDate |-> FirstDayOfMonth(now)]
              /\ tracking'.daily = tracking.daily
              /\ tracking'.totalTransactions = tracking.totalTransactions
              /\ tracking'.lastTransaction = tracking.lastTransaction
              /\ config' = config ]_vars

\* resetDaily after a spend of 15: the daily amount is 0, the monthly amount is
\* still 15 and the transaction is still counted
C31_Witness ==
    /\ lastOp.name = "resetDaily"
    /\ tracking.daily.amount = 0
    /\ tracking.monthly.amount = 15
    /\ tracking.totalTransactions = 1
    /\ tracking.lastTransaction # <<>>

-----------------------------------------------------------------------------
(* Properties of the Permission Request Ledger *)

\* two addresses that differ at most in letter case
SameUpToCase(a, b) == toLowerCase(a) = toLowerCase(b)

\* the pending requests that have not expired, by position
LivePending(reqs, ms) ==
    {i \in DOMAIN reqs : reqs[i].status = "pending" /\ reqs[i].expiresAt > ms}

\* C6: requestPermission compares recipients without regard to letter case: a
\* recipient equal up to case to a blockedRecipients entry is denied as blocked
\* and nothing is added, and a recipient equal up to case to an allowedRecipients
\* entry is not denied for missing from the allow-list.
C6_CaseInsensitiveLists ==
    lastOp.name = "requestPermission" =>
        LET rcpt == lastOp.args.recipientAddress
            r == lastOp.result
        IN  /\ (\E i \in DOMAIN permConfig.blockedRecipients :
                    SameUpToCase(permConfig.blockedRecipients[i], rcpt))
                   => (~r.success /\ r.error = ErrBlocked)
            /\ (\E i \in DOMAIN permConfig.allowedRecipients :
                    SameUpToCase(permConfig.allowedRecipients[i], rcpt))
                   => r.error # ErrNotAllowed

\* C7: requestPermission reports the first check that fails, in the order
\* block-list (holds the lower-cased recipient), allow-list (non-empty and without
\* the lower-cased recipient), pending limit (pending requests not yet expired at
\* least maxPendingRequests, whatever the amount); it succeeds when none fails,
\* and a denial changes neither the request list nor what is stored.
C7_ValidationOrder ==
    [][ lastOp'.name = "requestPermission" =>
          LET rcpt == toLowerCase(lastOp'.args.recipientAddress)
              r == lastOp'.result
              blocked == Includes(permConfig.blockedRecipients, rcpt)
              notAllowed == /\ Len(permConfig.allowedRecipients) > 0
                            /\ ~Includes(permConfig.allowedRecipients, rcpt)
              full == Cardinality(LivePending(requests, now))
                          >= permConfig.maxPendingRequests
          IN  /\ blocked => r.error = ErrBlocked
              /\ (~blocked /\ notAllowed) => r.error = ErrNotAllowed
              /\ (~blocked /\ ~notAllowed /\ full) => r.error = ErrTooMany
              /\ (~blocked /\ ~notAllowed /\ ~full) => r.error = "none"
              /\ r.success <=> r.error = "none"
              /\ ~r.success => (requests' = requests /\ localStorage' = localStorage) ]_vars

\* at a limit of one pending request, a request succeeded while an overdue
\* pending request, not yet cleaned up, was in the ledger
C7_Witness ==
    /\ lastOp.name = "requestPermission"
    /\ lastOp.result.success
    /\ permConfig.maxPendingRequests = 1
    /\ \E i \in DOMAIN requests :
           requests[i].status = "pending" /\ requests[i].expiresAt <= now

C9_Lifecycle ==
    [][ /\ Len(requests') >= Len(requests)
        /\ \A i \in DOMAIN requests :
              /\ requests'[i].id = requests[i].id
              /\ requests'[i].status # requests[i].status =>
                     /\ requests[i].status = "pending"
                     /\ requests'[i].status \in {"approved", "rejected", "expired"} ]_vars

\* cleanup has run over an approved request past its expiresAt and an expired one
C9_Witness ==
    /\ lastOp.name = "cleanupExpiredRequests"
    /\ \E i \in DOMAIN requests :
           requests[i].status = "approved" /\ requests[i].expiresAt <= now
    /\ \E i \in DOMAIN requests : requests[i].status = "expired"

\* C10: approveRequest and rejectRequest on an id no request carries, or on a
\* request that is not pending, return success = false with the not-found or the
\* not-pending error and change neither the request list nor what is stored.
C10_NotFoundOrNotPending ==
    [][ lastOp'.name \in {"approveRequest", "rejectRequest"} =>
          LET id == lastOp'.args.requestId
              r == lastOp'.result
              notFound == \A i \in DOMAIN requests : requests[i].id # id
              notPending == \E i \in DOMAIN requests :
                                requests[i].id = id /\ requests[i].status # "pending"
          IN  /\ notFound => (~r.success /\ r.error = ErrNotFound)
              /\ notPending => (~r.success /\ r.error = ErrNotPending)
              /\ (notFound \/ notPending) =>
                     (requests' = requests /\ localStorage' = localStorage) ]_vars

\* a second approveRequest of a request the approver had approved was refused
C10_Witness ==
    /\ lastOp.name = "approveRequest"
    /\ ~lastOp.result.success
    /\ lastOp.result.error = ErrNotPending
    /\ \E i \in DOMAIN requests :
           /\ requests[i].id = lastOp.args.requestId
           /\ requests[i].status = "approved"
           /\ requests[i].approvedBy = <<lastOp.args.approvedBy>>

\* C11: approveRequest on a pending request whose expiresAt has passed returns
\* success = false with the expired error, turns that request's status to expired
\* and stores the list, and sets neither approvedAt nor approvedBy.
C11_ApproveExpired ==
    [][ lastOp'.name = "approveRequest" =>
          \A i \in DOMAIN requests :
              (/\ requests[i].id = lastOp'.args.requestId
               /\ requests[i].status = "pending"
               /\ requests[i].expiresAt <= now) =>
                  /\ ~lastOp'.result.success
                  /\ lastOp'.result.error = ErrExpired
                  /\ requests' = [requests EXCEPT ![i].status = "expired"]
                  /\ requests'[i].approvedAt = <<>>
                  /\ requests'[i].approvedBy = <<>>
                  /\ localStorage'.permissionRequests = <<requests'>> ]_vars

\* an approval that came a day after the request was refused as expired, the
\* request stored as expired without an approver
C11_Witness ==
    /\ lastOp.name = "approveRequest"
    /\ lastOp.result.error = ErrExpired
    /\ \E i \in DOMAIN requests :
           /\ requests[i].id = lastOp.args.requestId
           /\ requests[i].status = "expired"
           /\ requests[i].expiresAt <= now
           /\ requests[i].approvedAt = <<>>
           /\ requests[i].approvedBy = <<>>
    /\ localStorage.permissionRequests = <<requests>>

C13_CanSpendOrder ==
    /\ \A s \in SubAccountIds, r \in AllProbeAddresses, a \in ProbeAmounts :
           a > permConfig.autoApproveThreshold =>
               LET res == permissionCanSpend(requests, permConfig, now, s, a, r)
                   live(i) == /\ requests[i].subAccountId = s
                              /\ requests[i].amount = a
                              /\ SameUpToCase(requests[i].recipientAddress, r)
                              /\ requests[i].expiresAt > now
                   approved == {i \in DOMAIN requests :
                                   live(i) /\ requests[i].status = "approved"}
                   pending == {i \in DOMAIN requests :
                                  live(i) /\ requests[i].status = "pending"}
               IN  /\ approved # {} =>
                          /\ res.allowed /\ ~res.requiresApproval
                          /\ res.pendingRequestId = <<>>
                   /\ (approved = {} /\ pending # {}) =>
                          /\ ~res.allowed /\ res.requiresApproval
                          /\ \E i \in pending :
                                 res.pendingRequestId = <<requests[i].id>>
                   /\ (approved = {} /\ pending = {}
                          /\ permConfig.requireApprovalForSubAccounts) =>
                          /\ ~res.allowed /\ res.requiresApproval
                          /\ res.pendingRequestId = <<>>
                   /\ (approved = {} /\ pending = {}
                          /\ ~permConfig.requireApprovalForSubAccounts) =>
                          /\ res.allowed /\ ~res.requiresApproval
                          /\ res.pendingRequestId = <<>>
    /\ lastOp.name = "canSpend" =>
           lastOp.result = permissionCanSpend(requests, permConfig, now,
                                              lastOp.args.subAccountId,
                                              lastOp.args.amount,
                                              lastOp.args.recipientAddress)

\* canSpend allowed 15 on the approved request that stands behind a pending
\* request for the same sub-account, amount and recipient, the recipient given
\* in another letter case
C13_Witness ==
    /\ lastOp.name = "canSpend"
    /\ lastOp.args.amount > permConfig.autoApproveThreshold
    /\ lastOp.result.allowed
    /\ permConfig.requireApprovalForSubAccounts
    /\ \E i, j \in DOMAIN requests :
           /\ i < j
           /\ requests[i].status = "pending" /\ requests[j].status = "approved"
           /\ requests[i].expiresAt > now /\ requests[j].expiresAt > now
           /\ \A k \in {i, j} :
                  /\ requests[k].subAccountId = lastOp.args.subAccountId
                  /\ requests[k].amount = lastOp.args.amount
                  /\ requests[k].recipientAddress # lastOp.args.recipientAddress
                  /\ SameUpToCase(requests[k].recipientAddress,
                                  lastOp.args.recipientAddress)

\* C14: cleanupExpiredRequests is idempotent at a fixed clock value: run on its
\* own result it changes no request, so a second call in a row leaves the
\* statuses and the stored list as the first call left them.
C14_CleanupIdempotent ==
    /\ cleanupExpiredRequests(cleanupExpiredRequests(requests, now), now)
           = cleanupExpiredRequests(requests, now)
    /\ lastOp.name = "cleanupExpiredRequests" =>
           /\ cleanupExpiredRequests(requests, now) = requests
           /\ localStorage.permissionRequests = <<requests>>

\* cleanup has expired an overdue pending request and kept a pending one that
\* is still in time
C14_Witness ==
    /\ lastOp.name = "cleanupExpiredRequests"
    /\ \E i \in DOMAIN requests :
           requests[i].status = "expired" /\ requests[i].expiresAt <= now
    /\ \E i \in DOMAIN requests :
           requests[i].status = "pending" /\ requests[i].expiresAt > now

\* C20: while blockedRecipients holds a recipient (lower-cased, as
\* requestPermission looks it up), requestPermission creates no request for it
\* and the ledger's canSpend never returns allowed = true for it, whatever the
\* amount is and whatever requests were approved before it was block-listed.
C20_BlockListEnforced ==
    LET blocked(rcpt) == Includes(permConfig.blockedRecipients, toLowerCase(rcpt))
    IN  /\ (lastOp.name = "requestPermission"
               /\ blocked(lastOp.args.recipientAddress)) =>
               (~lastOp.result.success /\ lastOp.result.requestId = <<>>)
        /\ (lastOp.name = "canSpend" /\ blocked(lastOp.args.recipientAddress)) =>
               ~lastOp.result.allowed

\* C23: the expiresAt of a request is set when the request is created and no
\* step changes it afterwards: not approveRequest, rejectRequest,
\* cleanupExpiredRequests or canSpend, and not an updateConfig that changes
\* requestExpiryHours.
C23_ExpiryFixed ==
    [][ /\ Len(requests') >= Len(requests)
        /\ \A i \in DOMAIN requests :
               requests'[i].expiresAt = requests[i].expiresAt ]_vars

\* a request created with a life of 24 hours was approved after requestExpiryHours
\* had been set to 48: it still expires 24 hours after its creation
C23_Witness ==
    /\ lastOp.name = "approveRequest"
    /\ lastOp.result.success
    /\ permConfig.requestExpiryHours = 48
    /\ \E i \in DOMAIN requests :
           /\ requests[i].id = lastOp.args.requestId
           /\ requests[i].status = "approved"
           /\ requests[i].expiresAt = requests[i].requestedAt + 24 * MsPerHour

\* C24: a request carries the fields of one outcome only: approvedAt and
\* approvedBy are set only on approved requests, rejectedAt and rejectionReason
\* only on rejected requests, and pending and expired requests carry none.
C24_OneOutcome ==
    \A i \in DOMAIN requests :
        /\ (requests[i].approvedAt # <<>> \/ requests[i].approvedBy # <<>>) =>
               requests[i].status = "approved"
        /\ (requests[i].rejectedAt # <<>> \/ requests[i].rejectionReason # <<>>) =>
               requests[i].status = "rejected"

\* C26: cleanupExpiredRequests turns to expired exactly the requests that are
\* pending with expiresAt passed and changes nothing else: every other request,
\* an approved one past its expiresAt among them, stays as it is, no field but
\* status changes, and the number and the order of the requests are kept.
C26_CleanupFrame ==
    LET out == cleanupExpiredRequests(requests, now)
    IN  /\ Len(out) = Len(requests)
        /\ \A i \in DOMAIN requests :
               IF requests[i].status = "pending" /\ requests[i].expiresAt <= now
               THEN out[i] = [requests[i] EXCEPT !.status = "expired"]
               ELSE out[i] = requests[i]
        /\ lastOp.name = "cleanupExpiredRequests" =>
               \A i \in DOMAIN requests :
                   /\ ~(requests[i].status = "pending" /\ requests[i].expiresAt <= now)
                   /\ requests[i].status = "expired" =>
                          (requests[i].rejectedAt = <<>> /\ requests[i].approvedAt = <<>>)

\* cleanup has run over a rejected request followed by an overdue one: the first
\* is still rejected, the second expired
C26_Witness ==
    /\ lastOp.name = "cleanupExpiredRequests"
    /\ Len(requests) = 2
    /\ requests[1].status = "rejected"
    /\ requests[1].expiresAt <= now
    /\ requests[2].status = "expired"

\* C27: getStats changes nothing and partitions the ledger by stored status: its
\* counters are the numbers of pending, approved, rejected and expired requests,
\* they add up to total, and total is the number of requests.
C27_StatsPartition ==
    /\ [](lastOp.name = "getStats" =>
             LET r == lastOp.result
             IN  /\ r.total = Len(requests)
                 /\ r.pending + r.approved + r.rejected + r.expired = r.total
                 /\ \A status \in {"pending", "approved", "rejected", "expired"} :
                        r[status] = Cardinality({i \in DOMAIN requests :
                                                    requests[i].status = status}))
    /\ [][ lastOp'.name = "getStats" =>
              /\ requests' = requests
              /\ permConfig' = permConfig
              /\ localStorage' = localStorage ]_vars

\* getStats counted an overdue pending request as pending, beside an approved one
C27_Witness ==
    /\ lastOp.name = "getStats"
    /\ lastOp.result.total = 2
    /\ lastOp.result.pending = 1
    /\ lastOp.result.approved = 1
    /\ \E i \in DOMAIN requests :
           requests[i].status = "pending" /\ requests[i].expiresAt <= now

\* C32: while maxPendingRequests stays the same, the number of requests that are
\* pending and not yet expired never passes it: no step that keeps the limit,
\* taken from a ledger within the limit, leaves the ledger above it, whatever
\* requestPermission, approveRequest, rejectRequest, cleanupExpiredRequests, a
\* reload or the clock did in that step.
C32_PendingWithinLimit ==
    [][ ( /\ IsArray(requests)
          /\ permConfig'.maxPendingRequests = permConfig.maxPendingRequests
          /\ Len(getPendingRequests(requests, now)) <= permConfig.maxPendingRequests )
        => Len(getPendingRequests(requests', now')) <= permConfig'.maxPendingRequests ]_vars

\* at a limit of one, with one live pending request beside an overdue one, a
\* further request was refused: the ledger stays at the limit
C32_Witness ==
    /\ lastOp.name = "requestPermission"
    /\ lastOp.result.error = ErrTooMany
    /\ permConfig.maxPendingRequests = 1
    /\ Len(getPendingRequests(requests, now)) = 1
    /\ Len(requests) = 2
    /\ \E i \in DOMAIN requests :
           requests[i].status = "pending" /\ requests[i].expiresAt <= now

\* the pending requests whose expiresAt the clock has reached, by position
OverduePending(reqs, ms) ==
    {i \in DOMAIN reqs : reqs[i].status = "pending" /\ reqs[i].expiresAt <= ms}

\* C33: once the clock has reached the expiresAt of a pending request, nothing
\* approves it and the ledger's canSpend never answers because of it: every
\* approved request was approved before its expiresAt, approveRequest on an
\* overdue pending request fails and leaves it unapproved, and canSpend answers
\* as it would if the overdue pending requests were expired, naming none of
\* them as the pending request.
C33_NoLateApproval ==
    LET settled == [ i \in DOMAIN requests |->
                       IF i \in OverduePending(requests, now)
                       THEN [requests[i] EXCEPT !.status = "expired"]
                       ELSE requests[i] ]
    IN  /\ \A i \in DOMAIN requests :
               requests[i].status = "approved" =>
                   /\ requests[i].approvedAt # <<>>
                   /\ requests[i].approvedAt[1] < requests[i].expiresAt
        /\ \A i \in OverduePending(requests, now), by \in Approvers :
               LET out == approveRequest(requests, now, requests[i].id, by)
               IN  /\ ~out.result.success
                   /\ out.requests[i].status # "approved"
        /\ \A sub \in SubAccountIds, a \in ProbeAmounts, rcpt \in AllProbeAddresses :
               LET r == permissionCanSpend(requests, permConfig, now, sub, a, rcpt)
               IN  /\ r = permissionCanSpend(settled, permConfig, now, sub, a, rcpt)
                   /\ \A i \in OverduePending(requests, now) :
                          r.pendingRequestId # <<requests[i].id>>
        /\ (lastOp.name = "canSpend" /\ "thrown" \notin DOMAIN lastOp) =>
               \A i \in OverduePending(requests, now) :
                   lastOp.result.pendingRequestId # <<requests[i].id>>

\* canSpend was asked for the very spend of a request that is still stored as
\* pending and is overdue: it answered that approval is required and named no
\* pending request
C33_Witness ==
    /\ lastOp.name = "canSpend"
    /\ ~lastOp.result.allowed
    /\ lastOp.result.requiresApproval
    /\ lastOp.result.pendingRequestId = <<>>
    /\ \E i \in OverduePending(requests, now) :
           /\ requests[i].subAccountId = lastOp.args.subAccountId
           /\ requests[i].amount = lastOp.args.amount
           /\ SameUpToCase(requests[i].recipientAddress, lastOp.args.recipientAddress)

\* C34: the expiry boundary is the same in every ledger operation. At a clock
\* value ms a pending request is live exactly when expiresAt > ms:
\* getPendingRequests lists it, approveRequest approves it, canSpend reports it
\* as the pending match (when no approved or earlier pending match comes first)
\* and cleanupExpiredRequests leaves it pending; when expiresAt <= ms none of
\* the four does, approveRequest and cleanupExpiredRequests mark it expired.
\* Checked for every pending request at the current clock value and at the
\* instants just before, at and just after its expiresAt.
C34_OneBoundary ==
    \A i \in DOMAIN requests :
        requests[i].status = "pending" =>
            \A ms \in {now, requests[i].expiresAt - 1, requests[i].expiresAt,
                        requests[i].expiresAt + 1} :
                LET req == requests[i]
                    live == req.expiresAt > ms
                    pending == getPendingRequests(requests, ms)
                    approval == approveRequest(requests, ms, req.id, "admin")
                    answer == permissionCanSpend(requests, permConfig, ms, req.subAccountId,
                                                 req.amount, req.recipientAddress)
                    first == \A j \in DOMAIN requests :
                                 ( /\ requests[j].subAccountId = req.subAccountId
                                   /\ requests[j].amount = req.amount
                                   /\ SameUpToCase(requests[j].recipientAddress,
                                                   req.recipientAddress)
                                   /\ requests[j].expiresAt > ms )
                                 => \/ requests[j].status \notin {"approved", "pending"}
                                    \/ requests[j].status = "pending" /\ j >= i
                    swept == cleanupExpiredRequests(requests, ms)
                IN  /\ live <=> \E k \in DOMAIN pending : pending[k].id = req.id
                    /\ live <=> approval.result.success
                    /\ approval.requests[i].status = IF live THEN "approved" ELSE "expired"
                    /\ answer.pendingRequestId = <<req.id>> => live
                    /\ (live /\ first /\ req.amount > permConfig.autoApproveThreshold)
                           => answer.pendingRequestId = <<req.id>>
                    /\ swept[i].status = IF live THEN "pending" ELSE "expired"

\* at a limit of one pending request, a second request was accepted at the very
\* instant the first, still stored as pending, reached its expiresAt
C34_Witness ==
    /\ lastOp.name = "requestPermission"
    /\ lastOp.result.success
    /\ permConfig.maxPendingRequests = 1
    /\ Len(requests) = 2
    /\ requests[1].status = "pending"
    /\ requests[1].expiresAt = now
    /\ requests[2].status = "pending"
    /\ requests[2].expiresAt > now

\* C35: the ledger's canSpend reads only, and using an approval does not use it
\* up. While a request is approved and its expiresAt lies ahead, canSpend for
\* its sub-account, its amount and its recipient in any letter case answers
\* allowed, whatever the configuration has become; and a canSpend call changes
\* no request, neither the configuration nor what is stored, so the next call
\* finds the approval as the last one did.
C35_ApprovalNotConsumed ==
    /\ [](\A i \in DOMAIN requests :
             (requests[i].status = "approved" /\ requests[i].expiresAt > now) =>
                 \A rcpt \in AllProbeAddresses \cup {requests[i].recipientAddress} :
                     SameUpToCase(rcpt, requests[i].recipientAddress) =>
                         LET r == permissionCanSpend(requests, permConfig, now,
                                                     requests[i].subAccountId,
                                                     requests[i].amount, rcpt)
                         IN  r.allowed /\ ~r.requiresApproval)
    /\ [][ lastOp'.name = "canSpend" =>
              /\ requests' = requests
              /\ permConfig' = permConfig
              /\ localStorage' = localStorage
              /\ now' = now ]_vars

\* canSpend allowed a spend above the threshold on the strength of a request an
\* administrator approved; the request is approved still and stored as such
C35_Witness ==
    /\ lastOp.name = "canSpend"
    /\ lastOp.result.allowed
    /\ permConfig.requireApprovalForSubAccounts
    /\ lastOp.args.amount > permConfig.autoApproveThreshold
    /\ \E i \in DOMAIN requests :
           /\ requests[i].status = "approved"
           /\ requests[i].approvedBy = <<"admin">>
           /\ requests[i].expiresAt > now
           /\ requests[i].subAccountId = lastOp.args.subAccountId
           /\ requests[i].amount = lastOp.args.amount
           /\ SameUpToCase(requests[i].recipientAddress, lastOp.args.recipientAddress)
    /\ localStorage.permissionRequests = <<requests>>

\* C36: rejectRequest does not look at expiry. On a request stored as pending
\* whose expiresAt has passed it succeeds and sets the status to rejected, where
\* approveRequest and cleanupExpiredRequests set it to expired; whichever comes
\* first decides, for the later ones leave the status they find.
C36_FirstComerDecides ==
    \A i \in OverduePending(requests, now) :
        LET id       == requests[i].id
            rejected == rejectRequest(requests, now, id, "admin", "declined")
            approved == approveRequest(requests, now, id, "admin")
            swept    == cleanupExpiredRequests(requests, now)
        IN  /\ rejected.result.success
            /\ rejected.requests[i].status = "rejected"
            /\ rejected.requests[i].rejectedAt = <<now>>
            /\ ~approved.result.success
            /\ approved.requests[i].status = "expired"
            /\ swept[i].status = "expired"
            \* rejected first: approveRequest and cleanupExpiredRequests leave it
            /\ approveRequest(rejected.requests, now, id, "admin").requests[i].status
                   = "rejected"
            /\ cleanupExpiredRequests(rejected.requests, now)[i].status = "rejected"
            \* expired first: rejectRequest fails and leaves it
            /\ \A expired \in {approved.requests, swept} :
                   LET late == rejectRequest(expired, now, id, "admin", "declined")
                   IN  ~late.result.success /\ late.requests[i].status = "expired"

\* rejectRequest has succeeded on a request at or after its expiresAt: the
\* request is rejected, not expired
C36_Witness ==
    /\ lastOp.name = "rejectRequest"
    /\ lastOp.result.success
    /\ \E i \in DOMAIN requests :
           /\ requests[i].id = lastOp.args.requestId
           /\ requests[i].status = "rejected"
           /\ requests[i].rejectedAt # <<>>
           /\ requests[i].rejectedAt[1] >= requests[i].expiresAt

-----------------------------------------------------------------------------
(* Properties of the Auto-Spend Arbiter *)

\* C15: canAutoSpend(amount, subAccount) is true exactly when a configuration
\* is present and enabled, the sub-account is active, the amount is at most
\* dailySpendLimit - totalSpentToday, the amount is at most approvalThreshold
\* whenever requiresApproval is set, and the amount is at most maxAmount; with
\* dailySpendLimit 20 and totalSpentToday 18 an amount of 5 is refused.
C15_CanAutoSpendGates ==
    /\ lastOp.name = "canAutoSpend" =>
           LET a == lastOp.args.amount
               sub == lastOp.args.subAccount
           IN  lastOp.result <=>
                   /\ autoConfig # <<>>
                   /\ autoConfig[1].enabled
                   /\ sub.isActive
                   /\ a <= sub.dailySpendLimit - sub.totalSpentToday
                   /\ ~(autoConfig[1].requiresApproval
                          /\ a > autoConfig[1].approvalThreshold)
                   /\ a <= autoConfig[1].maxAmount
    /\ \A sub \in SubAccounts :
           (sub.dailySpendLimit = 20 /\ sub.totalSpentToday = 18) =>
               ~canAutoSpend(autoConfig, 5, sub)

\* canAutoSpend accepted an amount equal to what is left of the day's allowance
C15_Witness ==
    /\ lastOp.name = "canAutoSpend"
    /\ lastOp.result
    /\ lastOp.args.amount = lastOp.args.subAccount.dailySpendLimit
                                - lastOp.args.subAccount.totalSpentToday

\* C16: processAutoSpend evaluates canAutoSpend on every call: when it is false
\* the call returns success = false with the not-available error, sends nothing
\* to the provider (no eth_requestAccounts, no wallet_sendCalls) and leaves the
\* configuration and the storage as they were; the provider is contacted only in
\* calls for which canAutoSpend holds.
C16_GateBeforeProvider ==
    [][ lastOp'.name = "processAutoSpend" =>
          LET a == lastOp'.args
              can == canAutoSpend(autoConfig, a.amount, a.subAccount)
          IN  /\ ~can => /\ ~lastOp'.result.success
                         /\ lastOp'.result.error = ErrAutoUnavailable
                         /\ lastOp'.calls = <<>>
              /\ lastOp'.calls # <<>> => can
              /\ autoConfig' = autoConfig
              /\ localStorage' = localStorage ]_vars

\* with a working provider at hand, an amount above the approval threshold was
\* turned down and nothing was sent
C16_Witness ==
    /\ lastOp.name = "processAutoSpend"
    /\ isEnabled(autoConfig)
    /\ lastOp.args.subAccount.isActive
    /\ lastOp.args.amount > autoConfig[1].approvalThreshold
    /\ lastOp.args.paymentService # <<>>
    /\ lastOp.args.paymentService[1].provider # <<>>
    /\ lastOp.args.paymentService[1].provider[1].sendCalls.ok
    /\ ~lastOp.result.success
    /\ lastOp.result.error = ErrAutoUnavailable
    /\ lastOp.calls = <<>>

\* C17: processAutoSpend always returns a result and never retries: it sends at
\* most one eth_requestAccounts and then at most one wallet_sendCalls; when the
\* payment service or its provider is missing, or the account request or the
\* transfer throws, it returns success = false with the error's message (the
\* fixed failure text when the error has none); when the transfer returns, it
\* returns success = true with the returned transaction id and the sub-account
\* as usedSubAccount.
C17_NoThrowNoRetry ==
    (lastOp.name = "processAutoSpend"
        /\ canAutoSpend(autoConfig, lastOp.args.amount, lastOp.args.subAccount)) =>
        LET svc == lastOp.args.paymentService
            r == lastOp.result
            sent == {i \in DOMAIN lastOp.calls :
                        lastOp.calls[i].method = "wallet_sendCalls"}
            asked == {i \in DOMAIN lastOp.calls :
                         lastOp.calls[i].method = "eth_requestAccounts"}
        IN  /\ Cardinality(sent) <= 1 /\ Cardinality(asked) <= 1
            /\ Len(lastOp.calls) = Cardinality(sent) + Cardinality(asked)
            /\ IF svc = <<>>
               THEN ~r.success /\ r.error = ErrNullService /\ lastOp.calls = <<>>
               ELSE IF svc[1].provider = <<>>
               THEN ~r.success /\ r.error = ErrNoProvider /\ lastOp.calls = <<>>
               ELSE LET provider == svc[1].provider[1]
                    IN  IF ~provider.accounts.ok
                        THEN /\ ~r.success /\ sent = {}
                             /\ r.error = IF provider.accounts.message # ""
                                          THEN provider.accounts.message
                                          ELSE ErrAutoFailed
                        ELSE IF ~provider.sendCalls.ok
                        THEN /\ ~r.success /\ Cardinality(sent) = 1
                             /\ r.error = IF provider.sendCalls.message # ""
                                          THEN provider.sendCalls.message
                                          ELSE ErrAutoFailed
                        ELSE /\ r.success /\ Cardinality(sent) = 1
                             /\ r.error = "none"
                             /\ r.transactionHash = <<provider.sendCalls.value>>
                             /\ r.usedSubAccount = <<lastOp.args.subAccount>>
            /\ ~r.success => (r.transactionHash = <<>> /\ r.usedSubAccount = <<>>)

\* the provider refused the transfer: one submission, its message returned
C17_Witness ==
    /\ lastOp.name = "processAutoSpend"
    /\ ~lastOp.result.success
    /\ lastOp.result.error = "insufficient funds"
    /\ Len(lastOp.calls) = 2
    /\ lastOp.calls[1].method = "eth_requestAccounts"
    /\ lastOp.calls[2].method = "wallet_sendCalls"

\* C18: while the arbiter has no configuration (none stored, a stored text that
\* does not parse, or after resetConfig) auto-spend is off: isEnabled is false,
\* canAutoSpend is false for every amount and sub-account, and processAutoSpend
\* fails without sending anything; the arbiter leaves that state only by a
\* setConfig, and auto-spend is on afterwards only if that setConfig had
\* enabled = true.
C18_DisabledByDefault ==
    /\ [](autoConfig = <<>> =>
             /\ ~isEnabled(autoConfig)
             /\ \A a \in AutoAmounts, sub \in SubAccounts :
                    ~canAutoSpend(autoConfig, a, sub)
             /\ lastOp.name \in {"isEnabled", "canAutoSpend"} => ~lastOp.result
             /\ lastOp.name = "processAutoSpend" =>
                    (~lastOp.result.success /\ lastOp.calls = <<>>))
    /\ []((lastOp.name \in {"construct", "resetConfig"}
              /\ (localStorage.autoSpendConfig = Absent
                     \/ ~Parses(localStorage.autoSpendConfig))) =>
             autoConfig = <<>>)
    /\ [](lastOp.name = "resetConfig" => localStorage.autoSpendConfig = Absent)
    /\ [][ autoConfig = <<>> =>
              /\ autoConfig' # <<>> => lastOp'.name = "setConfig"
              /\ isEnabled(autoConfig') =>
                     (lastOp'.name = "setConfig" /\ lastOp'.args.enabled) ]_vars

\* the stored text does not parse: a transfer was asked of a working provider
\* for an active sub-account and refused, nothing sent
C18_Witness ==
    /\ autoConfig = <<>>
    /\ ~Parses(localStorage.autoSpendConfig)
    /\ lastOp.name = "processAutoSpend"
    /\ lastOp.args.subAccount.isActive
    /\ lastOp.args.paymentService # <<>>
    /\ lastOp.args.paymentService[1].provider # <<>>
    /\ lastOp.args.paymentService[1].provider[1].sendCalls.ok
    /\ ~lastOp.result.success
    /\ lastOp.calls = <<>>

\* C28: the arbiter persists nothing and never changes the sub-account:
\* canAutoSpend, getAutoSpendStatus and processAutoSpend, failed or successful,
\* leave the auto-spend configuration and the storage as they were, the
\* sub-account a successful processAutoSpend hands back is the one it was given,
\* and the arbiter's answer for every amount is the same after the call as before.
C28_ArbiterFrame ==
    [][ lastOp'.name \in {"canAutoSpend", "getAutoSpendStatus", "processAutoSpend"} =>
          LET before == lastOp'.args.subAccount
              after  == IF lastOp'.name = "processAutoSpend" /\ lastOp'.result.success
                        THEN lastOp'.result.usedSubAccount[1]
                        ELSE before
          IN  /\ autoConfig' = autoConfig
              /\ localStorage' = localStorage
              /\ after.isActive = before.isActive
              /\ after.dailySpendLimit = before.dailySpendLimit
              /\ after.totalSpentToday = before.totalSpentToday
              /\ \A a \in AutoAmounts :
                     canAutoSpend(autoConfig', a, after) = canAutoSpend(autoConfig, a, before) ]_vars

\* a successful processAutoSpend of an amount that fits the remaining allowance
\* exactly: the sub-account handed back has spent what it had spent, and the same
\* amount is still allowed
C28_Witness ==
    /\ lastOp.name = "processAutoSpend"
    /\ lastOp.result.success
    /\ lastOp.args.subAccount.totalSpentToday = 18
    /\ lastOp.args.amount = 2
    /\ lastOp.result.usedSubAccount[1].totalSpentToday = 18
    /\ canAutoSpend(autoConfig, 2, lastOp.result.usedSubAccount[1])
    /\ localStorage.autoSpendConfig = autoConfig

-----------------------------------------------------------------------------
(* Properties of the persisted state *)

\* C19: a damaged stored entry is replaced by the defaults and never shows as
\* an error: while the entry under a key does not parse, or parses to a value of
\* the wrong shape (the request list not an array, the arbiter's configuration
\* without its fields), the service holds the default state for that key, and
\* no operation ends in an exception.
C19_CorruptionRecovered ==
    LET broken(entry) == entry # Absent /\ ~Parses(entry)
        autoFields == {"enabled", "subAccountId", "maxAmount", "requiresApproval",
                       "approvalThreshold"}
    IN  /\ "thrown" \notin DOMAIN lastOp
        /\ broken(localStorage.spendLimitConfig) => config = getDefaultConfig
        /\ broken(localStorage.spendTracking) =>
               tracking = getDefaultTracking(config, now)
        /\ broken(localStorage.permissionApprovalConfig) =>
               permConfig = getDefaultPermConfig
        /\ (broken(localStorage.permissionRequests)
               \/ localStorage.permissionRequests = <<NotAnArray>>) => requests = <<>>
        /\ broken(localStorage.autoSpendConfig) => autoConfig = <<>>
        /\ (localStorage.autoSpendConfig # Absent
               /\ Parses(localStorage.autoSpendConfig)
               /\ DOMAIN localStorage.autoSpendConfig[1] # autoFields) =>
               autoConfig = <<>>

\* the tracker has just returned from an operation that saves
TrackerWrote ==
    /\ "amount" \in DOMAIN lastOp
    /\ lastOp.name \in {"recordSpend", "resetDaily", "resetMonthly", "updateConfig"}

\* the ledger has just returned from an operation that saves
LedgerWrote ==
    /\ "args" \in DOMAIN lastOp
    /\ "thrown" \notin DOMAIN lastOp
    /\ \/ lastOp.name \in {"cleanupExpiredRequests", "updateConfig"}
       \/ /\ lastOp.name \in {"requestPermission", "approveRequest", "rejectRequest"}
          /\ lastOp.result.success

\* C29: write-through persistence. When a mutating operation of the tracker
\* (recordSpend, resetDaily, resetMonthly, updateConfig) or of the ledger
\* (a successful requestPermission, approveRequest, rejectRequest,
\* cleanupExpiredRequests, updateConfig) has returned, the stored blob of the key
\* it saves is the state in memory, and an instance constructed from the storage
\* at the same clock value has the state of the instance that wrote.
C29_WriteThrough ==
    /\ TrackerWrote =>
          /\ lastOp.name = "updateConfig" => localStorage.spendLimitConfig = <<config>>
          /\ lastOp.name # "updateConfig" => localStorage.spendTracking = <<tracking>>
          /\ newTracker(localStorage, now) = [config |-> config, tracking |-> tracking]
    /\ LedgerWrote =>
          /\ lastOp.name = "updateConfig" =>
                 localStorage.permissionApprovalConfig = <<permConfig>>
          /\ lastOp.name # "updateConfig" => localStorage.permissionRequests = <<requests>>
          /\ loadPermConfig(localStorage) = permConfig
          /\ loadRequests(localStorage) = requests

\* C30: nothing excludes two tracker instances from each other. recordSpend
\* saves the memory of the instance that records, its own amounts and count plus
\* the new spend, whatever the other instance has stored in the meantime; so a
\* spend the other instance saved is lost from the stored blob, and the persisted
\* daily amount can be less than the sum of the amounts recorded.
C30_LastWriterWins ==
    [][ lastOp'.name = "recordSpend" =>
          LET mine   == IF "instance" \in DOMAIN lastOp'
                        THEN tracker2.tracking ELSE tracking
              stored == localStorage'.spendTracking[1]
          IN  /\ stored.daily.amount = mine.daily.amount + lastOp'.amount
              /\ stored.monthly.amount = mine.monthly.amount + lastOp'.amount
              /\ stored.totalTransactions = mine.totalTransactions + 1
              /\ stored = IF "instance" \in DOMAIN lastOp'
                          THEN tracker2'.tracking ELSE tracking' ]_vars

\* both tabs have recorded one spend of 15 on the same day, the first tab without
\* a sub-account and the second for sub1: 30 was recorded, the stored blob holds
\* one transaction and a daily amount of 15
C30_Witness ==
    /\ lastOp = Op2("recordSpend", 15, <<>>)
    /\ tracking.totalTransactions = 1
    /\ tracking.lastTransaction[1].amount = 15
    /\ tracking.lastTransaction[1].subAccountId = <<>>
    /\ tracker2.tracking.totalTransactions = 1
    /\ tracker2.tracking.lastTransaction[1].subAccountId = <<"sub1">>
    /\ tracking.daily.resetDate = tracker2.tracking.daily.resetDate
    /\ localStorage.spendTracking[1].totalTransactions = 1
    /\ localStorage.spendTracking[1].daily.amount = 15
    /\ localStorage.spendTracking[1].daily.amount
           < tracking.lastTransaction[1].amount + tracker2.tracking.lastTransaction[1].amount

-----------------------------------------------------------------------------
(* Properties of the checkout flow *)

\* C21: processPayment hands a request to the payment service only when the
\* payment service exists, a user is authenticated and the spend permission has
\* been granted; in every other state it returns success = false with the error
\* of the first condition that fails, hands nothing over and changes neither
\* isProcessing nor lastPaymentResult.
C21_PaymentGuards ==
    [][ lastOp'.name = "processPayment" =>
          LET ready == /\ payment.paymentService
                       /\ payment.user # <<>>
                       /\ payment.hasSpendPermission
              error == IF ~payment.paymentService THEN ErrNotInitialized
                       ELSE IF payment.user = <<>> THEN ErrNotAuthenticated
                       ELSE ErrNoPermission
          IN  /\ ready =>
                     /\ Len(payment'.inFlight) = Len(payment.inFlight) + 1
                     /\ payment'.inFlight[Len(payment'.inFlight)] =
                            [amount |-> lastOp'.args.amount,
                             recipientAddress |-> lastOp'.args.recipientAddress,
                             userAddress |-> payment.user[1]]
              /\ ~ready =>
                     /\ lastOp'.result = <<PaymentResult(FALSE, <<>>, error)>>
                     /\ payment'.inFlight = payment.inFlight
                     /\ payment'.isProcessing = payment.isProcessing
                     /\ payment'.lastPaymentResult = payment.lastPaymentResult
                     /\ payment' = payment ]_vars

\* an authenticated user with the payment service ready and no permission was
\* refused a payment: nothing handed over, isProcessing still false
C21_Witness ==
    /\ lastOp.name = "processPayment"
    /\ payment.paymentService
    /\ payment.user # <<>>
    /\ ~payment.hasSpendPermission
    /\ lastOp.result = <<PaymentResult(FALSE, <<>>, ErrNoPermission)>>
    /\ payment.inFlight = <<>>
    /\ ~payment.isProcessing

\* C37: hasSpendPermission is true only for a permission the user now signed in
\* has granted. It is false after signOut and after the signIn that follows,
\* and a grant sets it only when the user who asked is the user signed in.
C37_PermissionOfCurrentUser ==
    /\ lastOp.name \in {"signOut", "signIn"} => ~payment.hasSpendPermission
    /\ (lastOp.name = "requestSpendPermission.settled" /\ payment.hasSpendPermission)
           => payment.user = <<lastOp.args>>

====
